---- MODULE Spec2Model ----
(***************************************************************************)
(* A model of the AI sales dashboard (src/app.py): the credential check,   *)
(* the client-side session written by login and logout, and the callbacks  *)
(* that filter and aggregate the module-level table df.                    *)
(***************************************************************************)
EXTENDS Integers, Sequences, FiniteSets, TLC

VARIABLES
    users_df,       \* the user table load_users returned (a sequence of rows)
    session_auth,   \* the data of dcc.Store 'session-auth'
    login_output,   \* the children of 'login-output'
    vu_call,        \* the most recent call of verify_user: inputs and outcome
    auth_event,     \* the most recent login or logout event
    last_writer,    \* history: the callback that last wrote session_auth
    log,            \* the lines the most recent handler gave to logger
    df,             \* the module-level table load_data returned
    cb_call,        \* the most recent data callback: name, inputs, outcome
    startup,        \* the import of the module: the metrics file and how far it got
    ui              \* the browser: the page shown, the active-tab store, tab-content

vars == <<users_df, session_auth, login_output, vu_call, auth_event,
         last_writer, log, df, cb_call, startup, ui>>

(***************************************************************************)
(* Bounds of the model.                                                    *)
(***************************************************************************)
MaxUsers == 2
MaxSessionIds == 2
MaxRows == 2
MaxCountries == 6
MaxExportRows == 11
RecursionLimit == 3
MaxVisits == 2

(***************************************************************************)
(* Python values.                                                          *)
(***************************************************************************)
\* Python's None where a string is expected (a Dash input that was never set).
None == "None"

\* not x, for x a string or None
Falsy(x) == x = None \/ x = ""

\* dash.no_update
no_update == [no_update |-> TRUE]

\* None where a dict is expected: the data of a dcc.Store that was never
\* written, the return value of a callback that returns None
null == [null |-> TRUE]

(***************************************************************************)
(* bcrypt, as src/hash_passwords.py and verify_user use it.  A stored hash *)
(* is the text "<prefix><salt><digest>"; the digest of an ideal hash       *)
(* determines the salt and the password it was made from.                  *)
(***************************************************************************)
Salts == {"salt1", "salt2"}
Passwords == {"password1", "password2"}

hashpw(password, salt) ==
    [prefix |-> "$2b$", salt |-> salt, digest |-> <<salt, password>>]

\* what a password_hash cell holds when it is no bcrypt hash: an empty cell
\* read as NaN and turned into "nan" by astype(str), or a plaintext password
MalformedHashes ==
    { [prefix |-> "", salt |-> "", digest |-> <<"", t>>] : t \in {"nan"} }

\* bcrypt.checkpw: raises ValueError on a hash it cannot parse
checkpw(password, hashed) ==
    IF hashed.prefix # "$2b$"
    THEN [raised |-> TRUE, ret |-> FALSE]
    ELSE [raised |-> FALSE, ret |-> (hashpw(password, hashed.salt) = hashed)]

(***************************************************************************)
(* The user table.                                                         *)
(***************************************************************************)
Usernames == {"analyst1", "marketer1"}
Roles == {"analyst"}

StoredHashes == { hashpw(p, "salt1") : p \in Passwords } \cup MalformedHashes

UserRows ==
    [username : Usernames, password_hash : StoredHashes, role : Roles]

\* every table load_users can return with at most MaxUsers rows; the empty
\* table is also what it returns when users.csv is absent or unreadable
load_users ==
    UNION { [1..n -> UserRows] : n \in 0..MaxUsers }

\* users_df[users_df['username'] == username]
RowsNamed(users, username) ==
    SelectSeq(users, LAMBDA r : r.username = username)

\* verify_user with the try/except around checkpw left out
verify_user_no_except(users, username, password) ==
    LET user == RowsNamed(users, username)
        chk  == checkpw(password, user[1].password_hash)
    IN  IF Falsy(username) \/ Falsy(password)
        THEN [ret |-> FALSE, raised |-> FALSE, log |-> <<>>]
        ELSE IF user = <<>>
        THEN [ret |-> FALSE, raised |-> FALSE, log |-> <<>>]
        ELSE [ret |-> chk.ret, raised |-> chk.raised, log |-> <<>>]

\* verify_user accepting a password that matches any user's hash
verify_user_any_hash(users, username, password) ==
    LET user == RowsNamed(users, username)
    IN  IF Falsy(username) \/ Falsy(password)
        THEN [ret |-> FALSE, raised |-> FALSE, log |-> <<>>]
        ELSE IF user = <<>>
        THEN [ret |-> FALSE, raised |-> FALSE, log |-> <<>>]
        ELSE [ret |-> \E i \in 1..Len(users) :
                          checkpw(password, users[i].password_hash).ret,
              raised |-> FALSE, log |-> <<>>]

\* verify_user that checks the hash of the last row with the username
verify_user_last_row(users, username, password) ==
    LET user == RowsNamed(users, username)
        chk  == checkpw(password, user[Len(user)].password_hash)
    IN  IF Falsy(username) \/ Falsy(password)
        THEN [ret |-> FALSE, raised |-> FALSE, log |-> <<>>]
        ELSE IF user = <<>>
        THEN [ret |-> FALSE, raised |-> FALSE, log |-> <<>>]
        ELSE IF chk.raised
        THEN [ret |-> FALSE, raised |-> FALSE,
              log |-> <<"Password verification failed">>]
        ELSE [ret |-> chk.ret, raised |-> FALSE, log |-> <<>>]

\* verify_user(username, password) over the table users: its return value,
\* whether an exception leaves it, and the lines it logs
verify_user(users, username, password) ==
    LET user == RowsNamed(users, username)
        chk  == checkpw(password, user[1].password_hash)
    IN  IF Falsy(username) \/ Falsy(password)
        THEN [ret |-> FALSE, raised |-> FALSE, log |-> <<>>]
        ELSE IF user = <<>>
        THEN [ret |-> FALSE, raised |-> FALSE, log |-> <<>>]
        ELSE IF chk.raised
        THEN [ret |-> FALSE, raised |-> FALSE,
              log |-> <<"Password verification failed">>]
        ELSE [ret |-> chk.ret, raised |-> FALSE, log |-> <<>>]

(***************************************************************************)
(* Login and logout.                                                       *)
(***************************************************************************)
\* what the browser can send as State('username') and State('password')
UsernameInputs == Usernames \cup {"Analyst1", "", None}
PasswordInputs == Passwords \cup {"", None}

\* n_clicks of a button: 0 stands for a button never clicked (None or 0)
Clicks == {0, 1}

\* str(uuid.uuid4())
SessionIds == 1..MaxSessionIds

\* login that tells an unknown username from a wrong password
login_names_cause(users, username, password, remember, uuid) ==
    IF Falsy(username) \/ Falsy(password)
    THEN <<no_update, "Please enter both username and password.">>
    ELSE IF verify_user(users, username, password).ret
    THEN <<[authenticated |-> TRUE, user |-> username, session_id |-> uuid], "">>
    ELSE IF RowsNamed(users, username) = <<>>
    THEN <<no_update, "Unknown username.">>
    ELSE <<no_update, "Invalid username or password.">>

\* login that writes the session without a session id
login_no_session_id(users, username, password, remember, uuid) ==
    IF Falsy(username) \/ Falsy(password)
    THEN <<no_update, "Please enter both username and password.">>
    ELSE IF verify_user(users, username, password).ret
    THEN <<[authenticated |-> TRUE, user |-> username], "">>
    ELSE <<no_update, "Invalid username or password.">>

\* login that writes a failed attempt into the session
login_writes_failure(users, username, password, remember, uuid) ==
    IF Falsy(username) \/ Falsy(password)
    THEN <<no_update, "Please enter both username and password.">>
    ELSE IF verify_user(users, username, password).ret
    THEN <<[authenticated |-> TRUE, user |-> username, session_id |-> uuid], "">>
    ELSE <<[authenticated |-> TRUE, user |-> username, session_id |-> uuid],
           "Invalid username or password.">>

\* the pair login(n_clicks, username, password, remember) returns, with uuid
\* the value uuid.uuid4() yields
login_returns(users, username, password, remember, uuid) ==
    IF Falsy(username) \/ Falsy(password)
    THEN <<no_update, "Please enter both username and password.">>
    ELSE IF verify_user(users, username, password).ret
    THEN <<IF remember
           THEN [authenticated |-> TRUE, user |-> username,
                 session_id |-> uuid, persistent |-> TRUE]
           ELSE [authenticated |-> TRUE, user |-> username, session_id |-> uuid],
           "">>
    ELSE <<no_update, "Invalid username or password.">>

\* what logout(n_clicks) returns
logout_returns(n_clicks) ==
    IF n_clicks # 0
    THEN [authenticated |-> FALSE, user |-> None]
    ELSE no_update

\* a Dash output keeps its value when the callback returns no_update
Written(old, returned) == IF returned = no_update THEN old ELSE returned

\* the record of one login or logout event
AuthEvent(op, n_clicks, username, password, verified, returned) ==
    [op |-> op, n_clicks |-> n_clicks, username |-> username,
     password |-> password, verified |-> verified, returned |-> returned]

NoEvent == AuthEvent("none", 0, None, None, FALSE, no_update)

NoCall == [username |-> None, password |-> None, called |-> FALSE,
           ret |-> FALSE, raised |-> FALSE]

\* the login callback, fired by a click on login-btn
login(n_clicks, username, password, remember, uuid) ==
    LET out == login_returns(users_df, username, password, remember, uuid)
        vu  == verify_user(users_df, username, password)
        ev  == AuthEvent("login", n_clicks, username, password,
                         ~(Falsy(username) \/ Falsy(password)) /\ vu.ret, out[1])
    IN  /\ session_auth' = Written(session_auth, out[1])
        /\ login_output' = out[2]
        /\ log' = IF Falsy(username) \/ Falsy(password) THEN <<>> ELSE vu.log
        /\ auth_event' = ev
        /\ last_writer' = IF out[1] = no_update THEN last_writer ELSE ev
        /\ UNCHANGED <<users_df, vu_call, df, cb_call, startup, ui>>

\* the logout callback, fired by logout-btn (also when the button is inserted,
\* with no click yet)
logout(n_clicks) ==
    LET out == logout_returns(n_clicks)
        ev  == AuthEvent("logout", n_clicks, None, None, FALSE, out)
    IN  /\ session_auth' = Written(session_auth, out)
        /\ log' = <<>>
        /\ auth_event' = ev
        /\ last_writer' = IF out = no_update THEN last_writer ELSE ev
        /\ UNCHANGED <<users_df, login_output, vu_call, df, cb_call, startup, ui>>

\* a direct call of verify_user(username, password)
VerifyUserCall(username, password) ==
    LET vu == verify_user(users_df, username, password)
    IN  /\ vu_call' = [username |-> username, password |-> password,
                       called |-> TRUE, ret |-> vu.ret, raised |-> vu.raised]
        /\ log' = vu.log
        /\ UNCHANGED <<users_df, session_auth, login_output, auth_event,
                       last_writer, df, cb_call, startup, ui>>

(***************************************************************************)
(* Specifications of the credential check and of the session.              *)
(***************************************************************************)
\* the part of the state the data callbacks own, before any of them ran
NoTable == [columns |-> {}, rows |-> <<>>]
NoCallback == [name |-> "none"]

\* the import of the module has completed on the file that gave the table t
Started(t) ==
    [pc |-> "ready", file |-> [columns |-> t.columns, rows |-> t.rows,
                               exists |-> t.columns # {}], uncaught |-> ""]

\* the children of tab-content: the component is not on the page, it has no
\* children, or it holds what a call of the function named fn returned
NoComponent == [component |-> "absent"]
EmptyChildren == [children |-> <<>>]
Layout(fn) == [layout |-> fn]

\* the browser when app.layout has been served and no callback has run yet:
\* page-content is empty, active-tab-store holds its initial data, and
\* display_page has not yet seen any value of session-auth.  The continent
\* and country dropdowns of a tab are as its layout builds them: both at
\* "all", the country dropdown disabled with "all" its only option.
InitialUi ==
    [page |-> "empty", active_tab |-> "overview", tab_content |-> NoComponent,
     seen_auth |-> <<>>, chunk |-> "none", visits |-> 0,
     filter_tab |-> "none", selected |-> <<"all", "all">>, offered |-> <<"all">>,
     disabled |-> TRUE, options_for |-> "all", requested |-> <<"all", "all">>]

InitVerify ==
    /\ users_df \in load_users
    /\ session_auth = null
    /\ login_output = None
    /\ vu_call = NoCall
    /\ auth_event = NoEvent
    /\ last_writer = NoEvent
    /\ log = <<>>
    /\ df = NoTable
    /\ cb_call = NoCallback
    /\ startup = Started(df)
    /\ ui = InitialUi

NextVerify ==
    \E username \in UsernameInputs, password \in PasswordInputs :
        VerifyUserCall(username, password)

SpecVerify == InitVerify /\ [][NextVerify]_vars

NextAuth ==
    \/ \E username \in UsernameInputs, password \in PasswordInputs,
          remember \in BOOLEAN, uuid \in SessionIds :
          login(1, username, password, remember, uuid)
    \/ \E n_clicks \in Clicks : logout(n_clicks)

SpecAuth == InitVerify /\ [][NextAuth]_vars

(***************************************************************************)
(* Claims about the credential check.                                      *)
(***************************************************************************)
\* the hash verify_user looks up for username: that of the first row named so
StoredHashOf(username) == RowsNamed(users_df, username)[1].password_hash

\* why a credential check fails, "" when it does not
FailureCause(username, password) ==
    IF Falsy(username) \/ Falsy(password) THEN "empty input"
    ELSE IF \A i \in 1..Len(users_df) : users_df[i].username # username
    THEN "unknown username"
    ELSE IF StoredHashOf(username) \in MalformedHashes THEN "malformed stored hash"
    ELSE IF StoredHashOf(username) # hashpw(password, StoredHashOf(username).salt)
    THEN "wrong password"
    ELSE ""

\* C1: verify_user returns True only when a row with exactly that username
\* exists and the password matches the stored hash of that row, and it returns
\* False for every password that does not match the hash it looked up.
C1_TrueOnlyOnMatch ==
    vu_call.called =>
        /\ vu_call.ret =>
              \E i \in 1..Len(users_df) :
                  /\ users_df[i].username = vu_call.username
                  /\ users_df[i].password_hash.prefix = "$2b$"
                  /\ users_df[i].password_hash.digest =
                         <<users_df[i].password_hash.salt, vu_call.password>>
        /\ FailureCause(vu_call.username, vu_call.password) = "wrong password"
              => ~vu_call.ret

\* C1 witness: a table of two users in which the check accepted one of them
C1_Witness ==
    /\ vu_call.called /\ vu_call.ret
    /\ Len(users_df) = 2
    /\ users_df[1].username # users_df[2].username
    /\ users_df[1].password_hash # users_df[2].password_hash

\* C2: verify_user never raises, and returns False when the username is not
\* in the table, when the stored hash is malformed and when the username or
\* the password is empty or None.
C2_NeverRaises ==
    vu_call.called =>
        /\ ~vu_call.raised
        /\ FailureCause(vu_call.username, vu_call.password)
              \in {"unknown username", "malformed stored hash", "empty input"}
              => ~vu_call.ret

\* C2 witness: the check ran against a malformed stored hash
C2_Witness ==
    /\ vu_call.called
    /\ FailureCause(vu_call.username, vu_call.password) = "malformed stored hash"

\* C4 as stated: every failed credential check (unknown username, malformed
\* stored hash, empty input) emits a log line.
C4_FailedCheckLogged ==
    (/\ vu_call.called
     /\ FailureCause(vu_call.username, vu_call.password)
            \in {"unknown username", "malformed stored hash", "empty input"})
        => log # <<>>

(***************************************************************************)
(* Claims about login, logout and the session.                             *)
(***************************************************************************)
FailedLogin == auth_event.op = "login" /\ ~auth_event.verified

\* C3 as stated: the outputs of login (session update and message) are the
\* same for every failure cause, empty input included.
C3_FailuresIndistinguishable ==
    FailedLogin =>
        \A username \in UsernameInputs, password \in PasswordInputs :
            FailureCause(username, password) # ""
                => login_returns(users_df, username, password, FALSE, 1)
                       = <<auth_event.returned, login_output>>

\* C3 amended: every failed login leaves the session alone; the message is the
\* same for an unknown username, a wrong password and a malformed stored hash,
\* and empty input has a message of its own.
C3_FailuresAmended ==
    FailedLogin =>
        /\ auth_event.returned = no_update
        /\ login_output =
              IF FailureCause(auth_event.username, auth_event.password) = "empty input"
              THEN "Please enter both username and password."
              ELSE "Invalid username or password."
        /\ \A username \in UsernameInputs, password \in PasswordInputs :
              /\ FailureCause(username, password)
                    \in {"unknown username", "wrong password", "malformed stored hash"}
              /\ FailureCause(auth_event.username, auth_event.password) # "empty input"
              => login_returns(users_df, username, password, FALSE, 1)
                     = <<auth_event.returned, login_output>>

\* C3 witness: a login failed for an unknown username in a table where other
\* inputs fail on a wrong password and on a malformed hash
C3_Witness ==
    /\ FailedLogin
    /\ FailureCause(auth_event.username, auth_event.password) = "unknown username"
    /\ \E u \in UsernameInputs, p \in PasswordInputs :
           FailureCause(u, p) = "wrong password"
    /\ \E u \in UsernameInputs, p \in PasswordInputs :
           FailureCause(u, p) = "malformed stored hash"

Authenticated(auth) ==
    auth # null /\ "authenticated" \in DOMAIN auth /\ auth.authenticated

\* C5: the session is authenticated only if the last event that wrote it was a
\* login whose credential check succeeded; a login with missing input or a
\* failed check leaves the session unchanged; a logout click writes
\* authenticated false and user None.
C5_SessionFollowsLastWrite ==
    /\ [](Authenticated(session_auth)
            => last_writer.op = "login" /\ last_writer.verified)
    /\ [][/\ (auth_event'.op = "login" /\ ~auth_event'.verified)
                => session_auth' = session_auth
          /\ (auth_event'.op = "logout" /\ auth_event'.n_clicks # 0)
                => session_auth' = [authenticated |-> FALSE, user |-> None]
         ]_vars

\* C5 witness: a failed login arrived at an authenticated session and left it
\* authenticated
C5_Witness ==
    /\ FailedLogin
    /\ FailureCause(auth_event.username, auth_event.password) = "wrong password"
    /\ Authenticated(session_auth)

SessionFields == {"authenticated", "user", "session_id"}

\* C6 as stated: every session value login or logout wrote has the fields
\* authenticated, user and session_id.
C6_SessionFields ==
    session_auth # null => SessionFields \subseteq DOMAIN session_auth

\* C6 amended: a value login wrote has the fields authenticated, user and
\* session_id (and persistent when remember was set); the value logout writes
\* has the fields authenticated and user only.
C6_SessionFieldsAmended ==
    session_auth # null =>
        IF last_writer.op = "login"
        THEN /\ SessionFields \subseteq DOMAIN session_auth
             /\ DOMAIN session_auth \subseteq SessionFields \cup {"persistent"}
        ELSE DOMAIN session_auth = {"authenticated", "user"}

\* C6 witness of the logout case
C6_LogoutWritten ==
    last_writer.op = "logout" /\ session_auth # null

(***************************************************************************)
(* The metrics table.  A table is its set of column names and its sequence *)
(* of rows; a row is a function on the columns.  Dates are day numbers of  *)
(* 2024, day 1 being Monday 1 January.                                     *)
(***************************************************************************)
\* metrics = list(metric_map.keys())
metrics == <<"jobs_placed", "scheduled_demos", "ai_requests", "promotional_events">>

metric_map(m) ==
    CASE m = "jobs_placed" -> "Jobs Placed"
      [] m = "scheduled_demos" -> "Scheduled Demos"
      [] m = "ai_requests" -> "AI Requests"
      [] m = "promotional_events" -> "Promotional Events"
      [] OTHER -> m

required_columns ==
    {"date", "country", "continent", "jobs_placed", "scheduled_demos", "ai_requests",
     "promotional_events", "job_type", "age_group", "request_type"}

\* the columns the module cannot start without (lines 57, 85 and 86 index them)
IndexedAtStartup == {"date", "country", "continent"}

\* the sets of columns a metrics file can lack in a running dashboard
MissingColumnSets == {{}, {"ai_requests"}, {"age_group"}}

\* an empty cell of a text column, as read_csv reads it
NaN == "nan"

\* a date that did not parse: pd.to_datetime(..., errors='coerce') gives NaT
NaT == -1

DataRow(date, country, continent, age_group, jobs, demos, ai, events) ==
    [date |-> date, country |-> country, continent |-> continent,
     age_group |-> age_group, jobs_placed |-> jobs, scheduled_demos |-> demos,
     ai_requests |-> ai, promotional_events |-> events,
     job_type |-> "permanent", request_type |-> "demo"]

\* the rows a metrics file is made of: clean rows, a row with its country and
\* age group cells empty, and a row whose date did not parse
RowPool ==
    << DataRow(1, "france", "europe", "18-25", 3, 1, 0, 2),
       DataRow(9, "germany", "europe", "26-35", 1, 0, 2, 0),
       DataRow(40, "japan", "asia", "18-25", 3, 2, 1, 1),
       DataRow(9, "france", "europe", "26-35", 0, 0, 0, 0),
       DataRow(20, NaN, "europe", NaN, 2, 1, 1, 1),
       DataRow(NaT, "japan", "asia", "18-25", 1, 1, 1, 1) >>

\* dff[[col for col in ... if col in dff.columns]], row by row
Project(row, columns) == [c \in columns |-> row[c]]

\* every table load_data can return with at most MaxRows rows: the table
\* without columns when the file is absent or unreadable, and else the rows
\* read, under the columns the file has
load_data ==
    {NoTable} \cup
    { [columns |-> required_columns \ missing,
       rows |-> [i \in 1..n |-> Project(RowPool[pick[i]], required_columns \ missing)]] :
          <<missing, n, pick>> \in
              UNION { UNION { { <<m, k, f>> : f \in [1..k -> 1..Len(RowPool)] }
                              : k \in 0..MaxRows } : m \in MissingColumnSets } }

\* DataFrame.empty
Empty(t) == t.columns = {} \/ t.rows = <<>>

\* dff[dff[column] == value]
WhereEq(t, column, value) ==
    [t EXCEPT !.rows = SelectSeq(t.rows, LAMBDA r : r[column] = value)]

\* a date input that holds no date (None): "if start_date:" is false
NoDate == 0

\* a lower bound that leaves out the rows dated on the bound itself
FromDate_exclusive(t, start_date) ==
    IF start_date = NoDate THEN t
    ELSE [t EXCEPT !.rows = SelectSeq(t.rows, LAMBDA r : r.date # NaT
                                                         /\ r.date > start_date)]

\* dff[dff['date'] >= pd.to_datetime(start_date)] when start_date is set
FromDate(t, start_date) ==
    IF start_date = NoDate THEN t
    ELSE [t EXCEPT !.rows = SelectSeq(t.rows, LAMBDA r : r.date # NaT
                                                         /\ r.date >= start_date)]

\* dff[dff['date'] <= pd.to_datetime(end_date)] when end_date is set
ToDate(t, end_date) ==
    IF end_date = NoDate THEN t
    ELSE [t EXCEPT !.rows = SelectSeq(t.rows, LAMBDA r : r.date # NaT
                                                         /\ r.date <= end_date)]

\* the continent filter every tab applies
InContinent(t, continent) ==
    IF continent # "all" THEN WhereEq(t, "continent", continent) ELSE t

\* the country filter of the time, age and summary tabs
InCountry(t, country) ==
    IF country # "all" THEN WhereEq(t, "country", country) ELSE t

\* Series.sum()
RECURSIVE SumCol(_, _)
SumCol(rows, column) ==
    IF rows = <<>> THEN 0
    ELSE rows[1][column] + SumCol(Tail(rows), column)

\* Series.max() and Series.min() of a column of at least one row
MaxCol(rows, column) ==
    CHOOSE v \in {rows[i][column] : i \in 1..Len(rows)} :
        \A i \in 1..Len(rows) : rows[i][column] <= v

MinCol(rows, column) ==
    CHOOSE v \in {rows[i][column] : i \in 1..Len(rows)} :
        \A i \in 1..Len(rows) : rows[i][column] >= v

\* the values of a key column in ascending order, as sorted() and groupby
\* order them; groupby leaves out the rows whose key is NaN
KeyOrder(column) ==
    CASE column = "country" ->
             <<"brazil", "china", "france", "germany", "india", "japan", "kenya">>
      [] column = "continent" -> <<"asia", "europe">>
      [] column = "age_group" -> <<"18-25", "26-35">>

\* dff.groupby(key)[columns].sum().reset_index(): one row per key value that
\* occurs, in ascending key order
GroupSum(t, key, columns) ==
    LET keys == SelectSeq(KeyOrder(key),
                          LAMBDA k : \E i \in 1..Len(t.rows) : t.rows[i][key] = k)
    IN  [i \in 1..Len(keys) |->
            [c \in columns \cup {key} |->
                IF c = key THEN keys[i]
                ELSE SumCol(WhereEq(t, key, keys[i]).rows, c)]]

\* the label of the period a date falls in: the day itself, the Sunday that
\* ends its week, the last day of its month (January or February), the last
\* day of the year; NaT falls in no period
Bucket(date, freq) ==
    CASE date = NaT -> NaT
      [] freq = "D" -> date
      [] freq = "W" -> ((date + 6) \div 7) * 7
      [] freq = "M" -> IF date <= 31 THEN 31 ELSE 60
      [] freq = "Y" -> 366

\* a frame with rows none of which has a date: binning it by date finds no
\* first and last date and raises
AllNaT(t) == t.rows # <<>> /\ \A i \in 1..Len(t.rows) : t.rows[i].date = NaT

\* dff.set_index('date').resample(freq)[columns].sum().reset_index(), and
\* groupby(pd.Grouper(key='date', freq=freq)): one row per period from the
\* first date's to the last date's, the periods without rows included; the
\* rows without a date are left out
Resample(t, freq, columns) ==
    LET dates  == {t.rows[i].date : i \in 1..Len(t.rows)} \ {NaT}
        lo     == Bucket(CHOOSE d \in dates : \A e \in dates : d <= e, freq)
        hi     == Bucket(CHOOSE d \in dates : \A e \in dates : d >= e, freq)
        labels == SelectSeq([i \in 1..(hi - lo + 1) |-> lo + i - 1],
                            LAMBDA b : Bucket(b, freq) = b)
    IN  IF dates = {} THEN <<>>
        ELSE [i \in 1..Len(labels) |->
                [c \in columns \cup {"date"} |->
                    IF c = "date" THEN labels[i]
                    ELSE SumCol(SelectSeq(t.rows,
                                    LAMBDA r : Bucket(r.date, freq) = labels[i]), c)]]

\* DataFrame.head(n)
FirstRows(rows, n) == SubSeq(rows, 1, IF Len(rows) < n THEN Len(rows) ELSE n)

\* the set of the elements of a list
Range(seq) == {seq[i] : i \in 1..Len(seq)}

(***************************************************************************)
(* What a callback hands to Dash.                                          *)
(***************************************************************************)
\* go.Figure() and px.line(): a chart without data
Figure == [type |-> "empty"]

\* a chart of the rows of a frame
Chart(type, data) == [type |-> type, data |-> data]

\* [x] * n
Times(x, n) == [i \in 1..n |-> x]

\* an f-string with a number format
Fmt(format, value) == [format |-> format, value |-> value]

\* str.title()
Title(text) == <<"title", text>>

\* the outcome of one call: the value returned, whether an exception left the
\* callback, and whether it had aggregated a column before it ended
Returned(value, aggregated) ==
    [log |-> <<>>, raised |-> FALSE, ret |-> value, aggregated |-> aggregated,
     exception |-> ""]

Raised(exception, aggregated) ==
    [log |-> <<>>, raised |-> TRUE, ret |-> <<>>, aggregated |-> aggregated,
     exception |-> exception]

\* an outcome reached through logger.error(line)
Logged(out, line) == [out EXCEPT !.log = <<line>>]

(***************************************************************************)
(* The overview and analytics callbacks, as functions of the table.        *)
(***************************************************************************)
\* the least index at which a list of keys is greatest: idxmax(), max(key=)
FirstMax(keys) ==
    CHOOSE i \in 1..Len(keys) :
        /\ \A j \in 1..Len(keys) : keys[j] <= keys[i]
        /\ \A j \in 1..(i - 1) : keys[j] < keys[i]

\* the body of update_overview_content, which does not read auth
overview_values(t, active_tab) ==
    IF Empty(t) \/ active_tab # "overview"
    THEN Returned(<<Times("0", 4), Figure, "N/A", "N/A", "N/A">>, FALSE)
    ELSE IF \E i \in 1..Len(metrics) : metrics[i] \notin t.columns
    THEN \* KeyError inside the try block, after the sums of the metrics
         \* that come before the missing one
         Logged(Returned(<<Times("0", 4), Figure, "Error", "Error", "Error">>,
                         metrics[1] \in t.columns),
                "Error updating overview")
    ELSE IF \/ AllNaT(t)
               \/ GroupSum(t, "country", {"jobs_placed"}) = <<>>
               \/ t.rows[FirstMax([i \in 1..Len(t.rows) |->
                                      t.rows[i].jobs_placed])].date = NaT
    THEN \* ValueError inside the try block: no date to bin by, idxmax() of
         \* an empty series, or strftime of NaT
         Logged(Returned(<<Times("0", 4), Figure, "Error", "Error", "Error">>, TRUE),
                "Error updating overview")
    ELSE LET by_country  == GroupSum(t, "country", {"jobs_placed"})
             top_country == by_country[FirstMax(
                                [i \in 1..Len(by_country) |->
                                    by_country[i].jobs_placed])].country
             peak_day    == t.rows[FirstMax([i \in 1..Len(t.rows) |->
                                               t.rows[i].jobs_placed])].date
             best_metric == metrics[FirstMax([i \in 1..Len(metrics) |->
                                   SumCol(t.rows, metrics[i])])]
         IN  Returned(<<Fmt(",", SumCol(t.rows, "jobs_placed")),
                        Fmt(",", SumCol(t.rows, "scheduled_demos")),
                        Fmt(",", SumCol(t.rows, "ai_requests")),
                        Fmt(",", SumCol(t.rows, "promotional_events")),
                        Chart("line", Resample(t, "W", Range(metrics))),
                        top_country,
                        Fmt("%b %d, %Y", peak_day),
                        metric_map(best_metric)>>, TRUE)

\* update_overview_content that shows the totals to an authenticated session
\* only
update_overview_content_gated(t, auth, active_tab) ==
    IF auth # null /\ "authenticated" \in DOMAIN auth /\ auth.authenticated
    THEN overview_values(t, active_tab)
    ELSE Returned(<<Times("0", 4), Figure, "N/A", "N/A", "N/A">>, FALSE)

\* update_overview_content(auth, active_tab)
update_overview_content_returns(t, auth, active_tab) ==
    overview_values(t, active_tab)

\* sum of the squares of a column
RECURSIVE SumSquares(_, _)
SumSquares(rows, column) ==
    IF rows = <<>> THEN 0
    ELSE rows[1][column] * rows[1][column] + SumSquares(Tail(rows), column)

\* Series.mean() as the fraction <<numerator, denominator>>
Mean(rows, column) == <<SumCol(rows, column), Len(rows)>>

\* Series.std(): the square root of the sample variance, the variance given as
\* a fraction; the denominator is 0 (the result NaN) for a single row
Std(rows, column) ==
    [sqrt_of |-> <<Len(rows) * SumSquares(rows, column)
                      - SumCol(rows, column) * SumCol(rows, column),
                   Len(rows) * (Len(rows) - 1)>>]

\* dff.groupby(['country', pd.Grouper(key='date', freq='M')])[metric].sum():
\* one row per country and month that occur together
HeatmapRows(t, metric) ==
    LET months == SelectSeq(<<31, 60>>, LAMBDA b : Bucket(b, "M") = b)
        cells  == [i \in 1..(Len(KeyOrder("country")) * Len(months)) |->
                      [country |-> KeyOrder("country")[((i - 1) \div Len(months)) + 1],
                       date |-> months[((i - 1) % Len(months)) + 1]]]
        In(c)  == SelectSeq(t.rows, LAMBDA r : r.country = c.country
                                               /\ Bucket(r.date, "M") = c.date)
        seen   == SelectSeq(cells, LAMBDA c : In(c) # <<>>)
    IN  [i \in 1..Len(seen) |->
            [country |-> seen[i].country, date |-> seen[i].date,
             value |-> SumCol(In(seen[i]), metric)]]

\* update_analytics_tab(start_date, end_date, metric, continent)
update_analytics_tab_returns(t, start_date, end_date, metric, continent) ==
    IF Empty(t) \/ metric \notin t.columns
    THEN Returned(<<Times("N/A", 5), Figure, Figure, Figure>>, FALSE)
    ELSE LET dff == InContinent(ToDate(FromDate(t, start_date), end_date), continent)
             total == SumCol(dff.rows, metric)
             avg == Mean(dff.rows, metric)
             mx == MaxCol(dff.rows, metric)
             mn == MinCol(dff.rows, metric)
             std == Std(dff.rows, metric)
             heatmap_df == HeatmapRows(dff, metric)
         IN  IF Empty(dff)
             THEN Returned(<<Times("No data", 5), Figure, Figure, Figure>>, FALSE)
             ELSE IF AllNaT(dff)
             THEN \* the monthly Grouper finds no date to bin by
                  Raised("ValueError", TRUE)
             ELSE Returned(<<Fmt(",.0f", total), Fmt(",.2f", avg), Fmt(",.0f", mx),
                             Fmt(",.0f", mn), Fmt(",.2f", std),
                             [type |-> "indicator", value |-> total,
                              title |-> <<"Total", metric_map(metric)>>, top |-> mx],
                             [type |-> "indicator", value |-> std,
                              title |-> <<"Consistency (Std Dev)">>, top |-> avg],
                             IF heatmap_df # <<>>
                             THEN Chart("imshow", heatmap_df) ELSE Figure>>, TRUE)

(***************************************************************************)
(* The geo, time, age and summary callbacks.                               *)
(***************************************************************************)
AllCountries == [label |-> <<"All Countries">>, value |-> "all"]

\* df[df['continent'] == continent]['country'].unique()
countries_in_continent(t, continent) ==
    {t.rows[i].country : i \in {j \in 1..Len(t.rows) : t.rows[j].continent = continent}}

\* sorted(countries_in_continent) and c.title() raise when a country is NaN,
\* a float: sorted() cannot compare it with a name, and it has no title()
options_exception(t, continent) ==
    IF NaN \notin countries_in_continent(t, continent) THEN ""
    ELSE IF countries_in_continent(t, continent) = {NaN} THEN "AttributeError"
    ELSE "TypeError"

\* the countries of a continent, sorted, as dropdown options
CountryOptions(t, continent) ==
    LET sorted == SelectSeq(KeyOrder("country"),
                     LAMBDA c : \E i \in 1..Len(t.rows) :
                         t.rows[i].continent = continent /\ t.rows[i].country = c)
    IN  <<AllCountries>> \o
        [i \in 1..Len(sorted) |-> [label |-> Title(sorted[i]), value |-> sorted[i]]]

\* the greatest index at which a list of keys is greatest
LastMax(keys) ==
    CHOOSE i \in 1..Len(keys) :
        /\ \A j \in 1..Len(keys) : keys[j] <= keys[i]
        /\ \A j \in (i + 1)..Len(keys) : keys[j] < keys[i]

\* a ranking that keeps the later row among equals, as keep='last' would
RECURSIVE NBest_keep_last(_, _, _, _)
NBest_keep_last(rows, n, column, sign) ==
    IF n = 0 \/ rows = <<>> THEN <<>>
    ELSE LET i == LastMax([j \in 1..Len(rows) |-> sign * rows[j][column]])
         IN  <<rows[i]>> \o
             NBest_keep_last(SubSeq(rows, 1, i - 1) \o SubSeq(rows, i + 1, Len(rows)),
                             n - 1, column, sign)

\* DataFrame.nlargest(n, column) and nsmallest(n, column): the n best rows,
\* best first, the earlier row first among equals
RECURSIVE NBest(_, _, _, _)
NBest(rows, n, column, sign) ==
    IF n = 0 \/ rows = <<>> THEN <<>>
    ELSE LET i == FirstMax([j \in 1..Len(rows) |-> sign * rows[j][column]])
         IN  <<rows[i]>> \o
             NBest(SubSeq(rows, 1, i - 1) \o SubSeq(rows, i + 1, Len(rows)),
                   n - 1, column, sign)

\* update_geo_tab(metric, continent, country, performance_type, performance_count)
update_geo_tab_returns(t, metric, continent, country, performance_type, performance_count) ==
    IF Empty(t) \/ metric \notin t.columns
    THEN Returned(<<<<>>, TRUE, Figure, Figure, <<"Select a metric">>>>, FALSE)
    ELSE IF continent # "all" /\ options_exception(t, continent) # ""
    THEN Raised(options_exception(t, continent), FALSE)
    ELSE LET country_options ==
                 IF continent = "all" THEN <<AllCountries>>
                 ELSE CountryOptions(t, continent)
             named == country # "all" /\ country # None
             dff == IF named
                    THEN WhereEq(InContinent(t, continent), "country", country)
                    ELSE InContinent(t, continent)
             title_text ==
                 <<metric_map(metric), " - ">> \o
                 (IF continent = "all" THEN <<"Global View">>
                  ELSE <<Title(continent)>> \o
                       (IF named THEN <<" (", Title(country), ")">> ELSE <<>>))
             map_df == GroupSum(dff, "country", {metric})
             countries_df ==
                 IF performance_type = "top"
                 THEN NBest(map_df, performance_count, metric, 1)
                 ELSE NBest(map_df, performance_count, metric, -1)
         IN  Returned(<<country_options, continent = "all",
                        IF map_df # <<>> THEN Chart("choropleth", map_df) ELSE Figure,
                        IF map_df # <<>> THEN Chart("bar", countries_df) ELSE Figure,
                        title_text>>, TRUE)

\* the country-options callback of a tab: update_time_country_options,
\* update_age_country_options and update_country_options have this body
country_options_returns(t, continent) ==
    IF continent = "all" THEN Returned(<<<<AllCountries>>, TRUE>>, FALSE)
    ELSE IF "continent" \notin t.columns THEN Raised("KeyError", FALSE)
    ELSE IF options_exception(t, continent) # ""
    THEN Raised(options_exception(t, continent), FALSE)
    ELSE Returned(<<CountryOptions(t, continent), FALSE>>, FALSE)

granularity_map(granularity) ==
    CASE granularity = "D" -> "Daily"
      [] granularity = "W" -> "Weekly"
      [] granularity = "M" -> "Monthly"
      [] granularity = "Y" -> "Yearly"
      [] OTHER -> granularity

\* update_time_tab(start_date, end_date, metric, continent, country, granularity)
update_time_tab_returns(t, start_date, end_date, metric, continent, country, granularity) ==
    IF Empty(t) \/ metric \notin t.columns
    THEN Returned(<<Figure, <<"Select a metric">>>>, FALSE)
    ELSE LET dff == InCountry(InContinent(ToDate(FromDate(t, start_date), end_date),
                                          continent), country)
             resampled == Resample(dff, granularity, {metric})
             region_parts ==
                 (IF continent # "all" THEN <<Title(continent)>> ELSE <<>>) \o
                 (IF country # "all" THEN <<Title(country)>> ELSE <<>>)
             region_label ==
                 IF region_parts = <<>> THEN <<"Globally">> ELSE <<"in">> \o region_parts
         IN  IF Empty(dff)
             THEN Returned(<<Figure, <<"No data available for selected filters">>>>,
                           FALSE)
             ELSE IF AllNaT(dff)
             THEN \* resample() finds no date to bin by
                  Raised("ValueError", FALSE)
             ELSE Returned(<<[type |-> "line", data |-> resampled,
                              trendline |-> Len(resampled) > 2],
                             <<granularity_map(granularity), metric_map(metric)>>
                                 \o region_label>>, TRUE)

\* update_age_tab(metric, continent, country)
update_age_tab_returns(t, metric, continent, country) ==
    IF Empty(t) \/ "age_group" \notin t.columns \/ metric \notin t.columns
    THEN Returned(<<Figure, Figure>>, FALSE)
    ELSE LET dff == InCountry(InContinent(t, continent), country)
             bar_df == GroupSum(dff, "age_group", {metric})
         IN  IF Empty(dff)
             THEN Returned(<<Figure, Figure>>, FALSE)
             ELSE Returned(<<Chart("bar", bar_df), Chart("pie", bar_df)>>, TRUE)

\* stacked_df[metrics].div(stacked_df[metrics].sum(axis=1), axis=0) * 100: each
\* metric of a group as the fraction <<100 * value, sum of the group's metrics>>
Percentages(stacked_df, key) ==
    [i \in 1..Len(stacked_df) |->
        [c \in DOMAIN stacked_df[i] |->
            IF c = key THEN stacked_df[i][c]
            ELSE <<100 * stacked_df[i][c],
                   stacked_df[i][metrics[1]] + stacked_df[i][metrics[2]]
                       + stacked_df[i][metrics[3]] + stacked_df[i][metrics[4]]>>]]

\* update_summary_tab(continent, country, view_type)
update_summary_tab_returns(t, continent, country, view_type) ==
    IF Empty(t)
    THEN Returned(<<Figure, Figure, Figure>>, FALSE)
    ELSE LET dff == InCountry(InContinent(t, continent), country)
             present == SelectSeq(metrics, LAMBDA m : m \in dff.columns)
             totals == [i \in 1..Len(present) |->
                           [name |-> metric_map(present[i]),
                            value |-> SumCol(dff.rows, present[i])]]
             group_by == IF continent = "all" THEN "continent" ELSE "country"
             stacked_df == GroupSum(dff, group_by, Range(metrics))
             trend_df == Resample(dff, "M", Range(metrics))
         IN  IF present # metrics
             THEN \* KeyError at dff.groupby(group_by)[metrics], after the totals
                  Raised("KeyError", present # <<>>)
             ELSE IF AllNaT(dff)
             THEN \* resample('M') finds no date to bin by
                  Raised("ValueError", TRUE)
             ELSE Returned(<<Chart("pie", totals),
                             Chart("bar", IF view_type = "percentage"
                                          THEN Percentages(stacked_df, group_by)
                                          ELSE stacked_df),
                             Chart("line", trend_df)>>, TRUE)

(***************************************************************************)
(* The export preview and the CSV download.                                *)
(***************************************************************************)
\* the filtered view update_export_preview builds
ExportView(t, start_date, end_date, metric, continent) ==
    LET dff == InContinent(ToDate(FromDate(t, start_date), end_date), continent)
        columns_to_keep == {"date", "country", "continent", "age_group", metric}
    IN  IF metric # "all"
        THEN [columns |-> columns_to_keep \cap dff.columns,
              rows |-> [i \in 1..Len(dff.rows) |->
                           Project(dff.rows[i], columns_to_keep \cap dff.columns)]]
        ELSE dff

\* update_export_preview(start_date, end_date, metric, continent)
update_export_preview_returns(t, start_date, end_date, metric, continent) ==
    IF Empty(t)
    THEN Returned(<<<<>>, "No data available">>, FALSE)
    ELSE LET dff == ExportView(t, start_date, end_date, metric, continent)
             \* a date input that is set is never None
             filters_applied == \/ start_date # NoDate
                                \/ end_date # NoDate
                                \/ continent # "all"
                                \/ metric # "all"
         IN  Returned(<<FirstRows(dff.rows, 10),
                        IF filters_applied THEN "Filtered Dataset Preview"
                        ELSE "Dataset Preview (First 10 rows)">>, FALSE)

\* DataFrame.to_csv(index=False): a header line and a line per row
to_csv(t) ==
    [header |-> t.columns,
     lines |-> [i \in 1..Len(t.rows) |->
                   [c \in t.columns |->
                       IF c = "date" THEN Fmt("%Y-%m-%d", t.rows[i][c])
                       ELSE t.rows[i][c]]]]

\* a download that keeps every column whatever metric is chosen
DownloadView_all_columns(t, start_date, end_date, metric, continent) ==
    InContinent(ToDate(FromDate(t, start_date), end_date), continent)

\* the filtered view download_csv builds
DownloadView(t, start_date, end_date, metric, continent) ==
    LET by_start == IF start_date = NoDate THEN t
                    ELSE [t EXCEPT !.rows = SelectSeq(t.rows,
                             LAMBDA r : r.date # NaT /\ r.date >= start_date)]
        by_end   == IF end_date = NoDate THEN by_start
                    ELSE [by_start EXCEPT !.rows = SelectSeq(by_start.rows,
                             LAMBDA r : r.date # NaT /\ r.date <= end_date)]
        dff      == IF continent # "all"
                    THEN [by_end EXCEPT !.rows = SelectSeq(by_end.rows,
                             LAMBDA r : r.continent = continent)]
                    ELSE by_end
        columns_to_keep == <<"date", "country", "continent", "age_group", metric>>
        kept     == {columns_to_keep[i] : i \in 1..Len(columns_to_keep)} \cap dff.columns
    IN  IF metric # "all"
        THEN [columns |-> kept,
              rows |-> [i \in 1..Len(dff.rows) |-> [c \in kept |-> dff.rows[i][c]]]]
        ELSE dff

\* download_csv(n_clicks, start_date, end_date, metric, continent)
download_csv_returns(t, n_clicks, start_date, end_date, metric, continent) ==
    IF Empty(t)
    THEN Returned(<<null>>, FALSE)
    ELSE Returned(<<[filename |-> "exported_data.csv",
                     content |-> to_csv(DownloadView(t, start_date, end_date,
                                                     metric, continent))]>>, FALSE)

\* the five report callbacks: the PDF button of a tab and the headings of the
\* charts the report takes from the browser
Reports ==
    {"export_age_report", "export_time_report", "export_geo_report",
     "export_analytics_report", "export_summary_report"}

report_headings(report) ==
    CASE report = "export_age_report" ->
             <<"Performance by Age Group", "Percentage Breakdown">>
      [] report = "export_time_report" -> <<"Trend Analysis">>
      [] report = "export_geo_report" ->
             <<"Geographic Distribution", "Country Performance">>
      [] report = "export_analytics_report" ->
             <<"Total Metric Gauge", "Consistency Gauge", "Performance Heatmap">>
      [] report = "export_summary_report" ->
             <<"Metric Distribution", "Metric Comparison", "Monthly Trends">>

report_filename(report) ==
    CASE report = "export_age_report" -> "age_group_report.pdf"
      [] report = "export_time_report" -> "time_trend_report.pdf"
      [] report = "export_geo_report" -> "geo_analysis_report.pdf"
      [] report = "export_analytics_report" -> "analytics_report.pdf"
      [] report = "export_summary_report" -> "summary_report.pdf"

report_title(report) ==
    CASE report = "export_age_report" -> "Age Group Analysis Report"
      [] report = "export_time_report" -> "Time Trend Analysis Report"
      [] report = "export_geo_report" -> "Geographic Analysis Report"
      [] report = "export_analytics_report" -> "Performance Analytics Report"
      [] report = "export_summary_report" -> "Metric Analysis Report"

\* the flowables of a story: Paragraph(text, styles[kind]), and Image(...) of
\* the chart that goes under the heading text; spacers are left out
Paragraph(text, kind) == [text |-> text, kind |-> kind]
Image(heading) == [text |-> heading, kind |-> "Image"]

\* the indices of a set in increasing order
Ascending(indices, n) ==
    SelectSeq([i \in 1..n |-> i], LAMBDA i : i \in indices)

\* the story of a report with the given charts, by position
report_story(report, charts) ==
    <<Paragraph(report_title(report), "Title")>> \o
    [k \in 1..(2 * Len(charts)) |->
        IF k % 2 = 1
        THEN Paragraph(report_headings(report)[charts[(k + 1) \div 2]], "Heading2")
        ELSE Image(report_headings(report)[charts[k \div 2]])]

\* an export callback in which a chart that fails to render ends the report
export_report_all_or_nothing(report, n_clicks, held, renders, builds) ==
    IF n_clicks = 0 \/ ~builds \/ ~(held \subseteq renders)
    THEN Returned(<<no_update>>, FALSE)
    ELSE Returned(<<[filename |-> report_filename(report),
                     story |-> report_story(report,
                                   Ascending(held, Len(report_headings(report))))]>>,
                  FALSE)

\* export_<tab>_report(n_clicks, *figs): held are the figures, by position,
\* that the browser holds ("fig and 'data' in fig"); renders are those for
\* which pio.to_image succeeds, the failure of another is logged and skips
\* that chart; builds tells whether doc.build(story) succeeds, its failure is
\* logged and gives no update
export_report_returns(report, n_clicks, held, renders, builds) ==
    IF n_clicks = 0
    THEN Returned(<<no_update>>, FALSE)
    ELSE LET n      == Len(report_headings(report))
             charts == Ascending(held \cap renders, n)
             failed == Ascending(held \ renders, n)
             lines  == [k \in 1..Len(failed) |-> "Error exporting chart"] \o
                       (IF builds THEN <<>> ELSE <<"Error generating report">>)
             out    == IF builds
                       THEN Returned(<<[filename |-> report_filename(report),
                                        story |-> report_story(report, charts)]>>,
                                     FALSE)
                       ELSE Returned(<<no_update>>, FALSE)
         IN  [out EXCEPT !.log = lines]

(***************************************************************************)
(* The data callbacks as steps of the dashboard.  Each works on values     *)
(* derived from df and leaves df as it is.                                 *)
(***************************************************************************)
\* what the date pickers, dropdowns and radio items can send
StartDates == {NoDate, 9}
EndDates == {NoDate, 1}
MetricInputs == Range(metrics)
\* the metrics sent to the geo and time tabs: one that every table has and
\* the one a table can lack
ChartMetricInputs == {"jobs_placed", "ai_requests"}
ContinentInputs == {"all", "asia", "europe"}
CountryInputs == {"all", "france", None}
Granularities == {"D", "W", "M", "Y"}
PerformanceTypes == {"top", "bottom"}
PerformanceCounts == {5, 10}
ViewTypes == {"absolute", "percentage"}
ActiveTabs == {"overview", "geo"}

\* the record of one callback invocation
Invocation(name, args, out) ==
    [name |-> name, args |-> args, out |-> out, auth |-> session_auth]

\* no callback is being answered
NoInvocation ==
    [name |-> "none", args |-> <<>>, out |-> Returned(<<>>, FALSE), auth |-> null]

\* a callback that only reads df; the server handles one request at a time
ReadOnly(name, args, out) ==
    /\ cb_call.name = "none"
    /\ cb_call' = Invocation(name, args, out)
    /\ log' = out.log
    /\ UNCHANGED <<users_df, session_auth, login_output, vu_call, auth_event,
                   last_writer, df, startup, ui>>

update_overview_content(active_tab) ==
    ReadOnly("update_overview_content", <<active_tab>>,
             update_overview_content_returns(df, session_auth, active_tab))

update_analytics_tab(start_date, end_date, metric, continent) ==
    ReadOnly("update_analytics_tab", <<start_date, end_date, metric, continent>>,
             update_analytics_tab_returns(df, start_date, end_date, metric, continent))

update_geo_tab(metric, continent, country, performance_type, performance_count) ==
    ReadOnly("update_geo_tab",
             <<metric, continent, country, performance_type, performance_count>>,
             update_geo_tab_returns(df, metric, continent, country,
                                    performance_type, performance_count))

update_time_country_options(continent) ==
    ReadOnly("update_time_country_options", <<continent>>,
             country_options_returns(df, continent))

update_time_tab(start_date, end_date, metric, continent, country, granularity) ==
    ReadOnly("update_time_tab",
             <<start_date, end_date, metric, continent, country, granularity>>,
             update_time_tab_returns(df, start_date, end_date, metric, continent,
                                     country, granularity))

update_age_country_options(continent) ==
    ReadOnly("update_age_country_options", <<continent>>,
             country_options_returns(df, continent))

\* update_age_tab that answers with empty charts once any login or logout
\* callback has run: a callback with a memory
update_age_tab_stateful(metric, continent, country) ==
    ReadOnly("update_age_tab", <<metric, continent, country>>,
             IF auth_event.op # "none" THEN Returned(<<Figure, Figure>>, FALSE)
             ELSE update_age_tab_returns(df, metric, continent, country))

update_age_tab(metric, continent, country) ==
    ReadOnly("update_age_tab", <<metric, continent, country>>,
             update_age_tab_returns(df, metric, continent, country))

update_country_options(continent) ==
    ReadOnly("update_country_options", <<continent>>,
             country_options_returns(df, continent))

\* update_summary_tab writing the percentages into the module-level table
\* instead of the grouped copy
update_summary_tab_in_place(continent, country, view_type) ==
    /\ cb_call.name = "none"
    /\ cb_call' = Invocation("update_summary_tab", <<continent, country, view_type>>,
                             update_summary_tab_returns(df, continent, country,
                                                        view_type))
    /\ df' = IF view_type = "percentage" /\ Range(metrics) \subseteq df.columns
             THEN [df EXCEPT !.rows =
                      [i \in 1..Len(df.rows) |->
                          [c \in df.columns |->
                              IF c \in Range(metrics)
                              THEN 100 * df.rows[i][c] ELSE df.rows[i][c]]]]
             ELSE df
    /\ log' = <<>>
    /\ UNCHANGED <<users_df, session_auth, login_output, vu_call, auth_event,
                   last_writer, startup, ui>>

update_summary_tab(continent, country, view_type) ==
    ReadOnly("update_summary_tab", <<continent, country, view_type>>,
             update_summary_tab_returns(df, continent, country, view_type))

update_export_preview(start_date, end_date, metric, continent) ==
    ReadOnly("update_export_preview", <<start_date, end_date, metric, continent>>,
             update_export_preview_returns(df, start_date, end_date, metric,
                                           continent))

download_csv(n_clicks, start_date, end_date, metric, continent) ==
    ReadOnly("download_csv", <<n_clicks, start_date, end_date, metric, continent>>,
             download_csv_returns(df, n_clicks, start_date, end_date, metric,
                                  continent))

export_report(report, n_clicks, held, renders, builds) ==
    ReadOnly(report, <<n_clicks, held, renders, builds>>,
             export_report_returns(report, n_clicks, held, renders, builds))

\* any one data callback
DataCallbacks ==
    \/ \E report \in Reports, n_clicks \in Clicks, builds \in BOOLEAN :
          \E held \in SUBSET (1..Len(report_headings(report))) :
              \E failing \in SUBSET held :
                  export_report(report, n_clicks, held,
                                (1..Len(report_headings(report))) \ failing, builds)
    \/ \E active_tab \in ActiveTabs : update_overview_content(active_tab)
    \/ \E start_date \in StartDates, end_date \in EndDates,
          metric \in MetricInputs, continent \in ContinentInputs :
          update_analytics_tab(start_date, end_date, metric, continent)
    \/ \E metric \in ChartMetricInputs, continent \in ContinentInputs,
          country \in CountryInputs, performance_type \in PerformanceTypes,
          performance_count \in PerformanceCounts :
          update_geo_tab(metric, continent, country, performance_type,
                         performance_count)
    \/ \E continent \in ContinentInputs : update_time_country_options(continent)
    \/ \E start_date \in StartDates, end_date \in EndDates,
          metric \in ChartMetricInputs, continent \in ContinentInputs,
          country \in CountryInputs, granularity \in Granularities :
          update_time_tab(start_date, end_date, metric, continent, country,
                          granularity)
    \/ \E continent \in ContinentInputs : update_age_country_options(continent)
    \/ \E metric \in MetricInputs, continent \in ContinentInputs,
          country \in CountryInputs : update_age_tab(metric, continent, country)
    \/ \E continent \in ContinentInputs : update_country_options(continent)
    \/ \E continent \in ContinentInputs, country \in CountryInputs,
          view_type \in ViewTypes : update_summary_tab(continent, country, view_type)
    \/ \E start_date \in StartDates, end_date \in EndDates,
          metric \in MetricInputs \cup {"all"}, continent \in ContinentInputs :
          update_export_preview(start_date, end_date, metric, continent)
    \/ \E start_date \in StartDates, end_date \in EndDates,
          metric \in MetricInputs \cup {"all"}, continent \in ContinentInputs :
          download_csv(1, start_date, end_date, metric, continent)

\* the dashboard over every table load_data can return
InitData ==
    /\ users_df = <<>>
    /\ session_auth = null
    /\ login_output = None
    /\ vu_call = NoCall
    /\ auth_event = NoEvent
    /\ last_writer = NoEvent
    /\ log = <<>>
    /\ df \in load_data
    /\ cb_call = NoInvocation
    /\ startup = Started(df)
    /\ ui = InitialUi

\* the response of the callback goes to the browser
Respond ==
    /\ cb_call.name # "none"
    /\ cb_call' = NoInvocation
    /\ UNCHANGED <<users_df, session_auth, login_output, vu_call, auth_event,
                   last_writer, log, df, startup, ui>>

NextData == DataCallbacks \/ Respond

SpecData == InitData /\ [][NextData]_vars

\* the dashboard with one registered user, over the tables whose rows are
\* taken from the file in order
GateUsers ==
    <<[username |-> "analyst1", password_hash |-> hashpw("password1", "salt1"),
       role |-> "analyst"]>>

InitGate ==
    /\ users_df = GateUsers
    /\ session_auth = null
    /\ login_output = None
    /\ vu_call = NoCall
    /\ auth_event = NoEvent
    /\ last_writer = NoEvent
    /\ log = <<>>
    /\ df \in {t \in load_data :
                 /\ t.columns \in {{}, required_columns}
                 /\ \A i \in 1..Len(t.rows), j \in 1..Len(t.rows) :
                        i < j => \E a, b \in 1..Len(RowPool) :
                                    /\ a < b
                                    /\ t.rows[i] = RowPool[a]
                                    /\ t.rows[j] = RowPool[b]}
    /\ cb_call = NoInvocation
    /\ startup = Started(df)
    /\ ui = InitialUi

NextGate ==
    \/ DataCallbacks
    \/ Respond
    \/ /\ cb_call.name = "none"
       /\ \E password \in Passwords : login(1, "analyst1", password, FALSE, 1)
    \/ /\ cb_call.name = "none"
       /\ logout(1)

SpecGate == InitGate /\ [][NextGate]_vars

(***************************************************************************)
(* Claims about the data callbacks.                                        *)
(***************************************************************************)
\* the session values a browser can hold
SessionValues ==
    {null, [authenticated |-> FALSE, user |-> None],
     [authenticated |-> TRUE, user |-> "analyst1", session_id |-> 1]}

\* what the callback of an invocation returns when the session is auth
OutcomeUnder(call, auth) ==
    LET a == call.args
    IN  CASE call.name = "update_overview_content" ->
                 update_overview_content_returns(df, auth, a[1])
          [] call.name = "update_analytics_tab" ->
                 update_analytics_tab_returns(df, a[1], a[2], a[3], a[4])
          [] call.name = "update_geo_tab" ->
                 update_geo_tab_returns(df, a[1], a[2], a[3], a[4], a[5])
          [] call.name = "update_time_tab" ->
                 update_time_tab_returns(df, a[1], a[2], a[3], a[4], a[5], a[6])
          [] call.name = "update_age_tab" ->
                 update_age_tab_returns(df, a[1], a[2], a[3])
          [] call.name = "update_summary_tab" ->
                 update_summary_tab_returns(df, a[1], a[2], a[3])
          [] call.name = "update_export_preview" ->
                 update_export_preview_returns(df, a[1], a[2], a[3], a[4])
          [] call.name = "download_csv" ->
                 download_csv_returns(df, a[1], a[2], a[3], a[4], a[5])
          [] call.name \in Reports ->
                 export_report_returns(call.name, a[1], a[2], a[3], a[4])
          [] OTHER -> country_options_returns(df, a[1])

\* C7: the result of every data callback is the same whether the session is
\* authenticated or not: what a callback returned under the session it ran in
\* is what it returns under every other session value.
C7_GateIsCosmetic ==
    cb_call.name # "none" =>
        \A auth \in SessionValues : OutcomeUnder(cb_call, auth) = cb_call.out

\* C7 witness: after a logout the overview callback still returned the totals
C7_Witness ==
    /\ cb_call.name = "update_overview_content"
    /\ last_writer.op = "logout"
    /\ ~Authenticated(cb_call.auth)
    /\ Len(cb_call.out.ret) = 8

\* C8: no callback changes the module-level table: in every step df keeps
\* the rows and values load_data returned.
C8_TableNeverMutated == [][df' = df]_vars

\* C8 witness: the summary callback normalised a non-empty grouped frame to
\* percentages
C8_Witness ==
    /\ cb_call.name = "update_summary_tab"
    /\ cb_call.args[3] = "percentage"
    /\ ~cb_call.out.raised
    /\ Len(cb_call.out.ret) = 3
    /\ cb_call.out.ret[2] # Figure
    /\ cb_call.out.ret[2].data # <<>>

\* the filter callbacks and the filter each one applies
FilterCallbacks ==
    {"update_analytics_tab", "update_time_tab", "update_age_tab", "update_geo_tab",
     "update_summary_tab", "update_export_preview"}

FilterOf(call) ==
    LET a == call.args
    IN  CASE call.name \in {"update_analytics_tab", "update_export_preview"} ->
                 [start_date |-> a[1], end_date |-> a[2], continent |-> a[4],
                  country |-> "all"]
          [] call.name = "update_time_tab" ->
                 [start_date |-> a[1], end_date |-> a[2], continent |-> a[4],
                  country |-> a[5]]
          [] call.name = "update_geo_tab" ->
                 [start_date |-> NoDate, end_date |-> NoDate, continent |-> a[2],
                  country |-> IF a[3] = None THEN "all" ELSE a[3]]
          [] call.name = "update_age_tab" ->
                 [start_date |-> NoDate, end_date |-> NoDate, continent |-> a[2],
                  country |-> a[3]]
          [] call.name = "update_summary_tab" ->
                 [start_date |-> NoDate, end_date |-> NoDate, continent |-> a[1],
                  country |-> a[2]]

RowMatches(row, filter) ==
    /\ filter.start_date # NoDate => (row.date # NaT /\ row.date >= filter.start_date)
    /\ filter.end_date # NoDate => (row.date # NaT /\ row.date <= filter.end_date)
    /\ filter.continent # "all" => row.continent = filter.continent
    /\ filter.country # "all" => row.country = filter.country

\* a filter callback ran on a table with rows, and no row matches its filter
NoRowMatches ==
    /\ cb_call.name \in FilterCallbacks
    /\ ~Empty(df)
    /\ \A i \in 1..Len(df.rows) : ~RowMatches(df.rows[i], FilterOf(cb_call))

\* the placeholder of each filter callback: "No data" texts, empty charts, an
\* empty preview, and for the summary tab zero totals and charts without rows
IsEmptyResultPlaceholder(call) ==
    LET ret == call.out.ret
    IN  /\ ~call.out.raised
        /\ CASE call.name = "update_analytics_tab" ->
                    ret \in {<<Times("No data", 5), Figure, Figure, Figure>>,
                             <<Times("N/A", 5), Figure, Figure, Figure>>}
             [] call.name = "update_time_tab" ->
                    ret[1] = Figure
             [] call.name = "update_age_tab" ->
                    ret = <<Figure, Figure>>
             [] call.name = "update_geo_tab" ->
                    ret[3] = Figure /\ ret[4] = Figure
             [] call.name = "update_summary_tab" ->
                    /\ Len(ret) = 3
                    /\ \A i \in 1..Len(ret[1].data) : ret[1].data[i].value = 0
                    /\ ret[2].data = <<>>
                    /\ ret[3].data = <<>>
             [] call.name = "update_export_preview" ->
                    ret[1] = <<>>

\* C9 as stated: every filter callback whose filters match no row returns a
\* placeholder response and does not raise.
C9_EmptyFilterPlaceholder ==
    NoRowMatches => IsEmptyResultPlaceholder(cb_call)

\* a table in which every row has its date, its country and its age group
NoMissingCells(t) ==
    \A i \in 1..Len(t.rows) :
        /\ t.rows[i].date # NaT
        /\ t.rows[i].country # NaN
        /\ "age_group" \in t.columns => t.rows[i].age_group # NaN

\* C9 on the tables that have the four metric columns and no missing cells:
\* there every filter callback answers an empty filter result with its
\* placeholder
C9_EmptyFilterPlaceholderAllMetrics ==
    (NoRowMatches /\ Range(metrics) \subseteq df.columns /\ NoMissingCells(df))
        => IsEmptyResultPlaceholder(cb_call)

\* the tab callbacks that aggregate a metric, and the metric columns each uses
MetricsUsed(call) ==
    CASE call.name \in {"update_overview_content", "update_summary_tab"} ->
             Range(metrics)
      [] call.name \in {"update_analytics_tab", "update_time_tab"} ->
             {call.args[3]}
      [] call.name \in {"update_geo_tab", "update_age_tab"} ->
             {call.args[1]}
      [] OTHER -> {}

\* a tab callback ran on a table that has rows and lacks a metric column the
\* callback uses (the overview callback aggregates on the overview tab only)
MetricColumnMissing ==
    /\ ~Empty(df)
    /\ MetricsUsed(cb_call) \ df.columns # {}
    /\ cb_call.name = "update_overview_content" => cb_call.args[1] = "overview"

\* C10 as stated: a tab callback whose metric column is missing returns a
\* placeholder before any aggregation is attempted and does not raise.
C10_MissingMetricShortCircuits ==
    MetricColumnMissing =>
        /\ ~cb_call.out.raised
        /\ ~cb_call.out.aggregated

\* C10, the part the code keeps for the callbacks with a selected metric
C10_SelectedMetricShortCircuits ==
    (/\ MetricColumnMissing
     /\ cb_call.name \notin {"update_overview_content", "update_summary_tab"})
        => /\ ~cb_call.out.raised
           /\ ~cb_call.out.aggregated

(***************************************************************************)
(* Claims about the shape and the arithmetic of the callback results.      *)
(***************************************************************************)
\* the number of Output(...) entries a callback is registered with
declared_outputs(name) ==
    CASE name \in {"update_overview_content", "update_analytics_tab"} -> 8
      [] name = "update_geo_tab" -> 5
      [] name = "update_summary_tab" -> 3
      [] name \in {"update_time_tab", "update_age_tab", "update_export_preview",
                   "update_time_country_options", "update_age_country_options",
                   "update_country_options"} -> 2
      [] OTHER -> 1

\* the callbacks C11 names
EightOutputCallbacks == {"update_overview_content", "update_analytics_tab"}

\* C11 as stated: every return of update_overview_content and of
\* update_analytics_tab, the placeholder and error returns included, supplies
\* one value per declared output, eight values.
C11_OneValuePerOutput ==
    (cb_call.name \in EightOutputCallbacks /\ ~cb_call.out.raised)
        => Len(cb_call.out.ret) = declared_outputs(cb_call.name)

\* C11, the part the code keeps: the normal returns of the two callbacks,
\* those made after aggregation, have eight values
C11_NormalReturnsHaveEight ==
    (cb_call.name \in EightOutputCallbacks /\ ~cb_call.out.raised
        /\ cb_call.out.aggregated /\ cb_call.out.log = <<>>)
        => Len(cb_call.out.ret) = 8

\* the rows of df that satisfy the filter of an invocation
MatchingRows(call) == SelectSeq(df.rows, LAMBDA r : RowMatches(r, FilterOf(call)))

\* the sum of a column over the rows of a chart; an empty chart has no rows
ChartTotal(chart, column) ==
    IF chart.type = "empty" THEN 0 ELSE SumCol(chart.data, column)

\* the geo or age callback returned its charts
GroupedByCategory ==
    /\ cb_call.name \in {"update_geo_tab", "update_age_tab"}
    /\ ~cb_call.out.raised
    /\ cb_call.out.aggregated

\* the chart that shows the grouped table: the map of the geo tab, the bar
\* chart of the age tab
GroupedChart(call) ==
    IF call.name = "update_geo_tab" THEN call.out.ret[3] ELSE call.out.ret[1]

\* C12 as stated: the sum of the metric over the groups of the categorical
\* group-by (per country in the geo tab, per age group in the age tab) equals
\* the sum of the metric over all rows that satisfy the same filter, the rows
\* whose grouping key is missing included.
C12_GroupSumsEqualFilteredSum ==
    GroupedByCategory =>
        ChartTotal(GroupedChart(cb_call), cb_call.args[1])
            = SumCol(MatchingRows(cb_call), cb_call.args[1])

\* C12 on the tables without missing cells: there the group sums add up to
\* the filtered sum
C12_GroupSumsEqualWithoutMissingKeys ==
    (GroupedByCategory /\ NoMissingCells(df)) =>
        ChartTotal(GroupedChart(cb_call), cb_call.args[1])
            = SumCol(MatchingRows(cb_call), cb_call.args[1])

\* the time callback ran with a metric the table has and a filter that some
\* row satisfies
TimeFilterMatches ==
    /\ cb_call.name = "update_time_tab"
    /\ ~Empty(df)
    /\ cb_call.args[3] \in df.columns
    /\ MatchingRows(cb_call) # <<>>

\* the buckets of the trend chart add up to the filtered sum, and every row
\* that satisfies the filter falls in exactly one of them
BucketsPartitionRows ==
    LET chart == cb_call.out.ret[1]
        rows  == MatchingRows(cb_call)
    IN  /\ ~cb_call.out.raised
        /\ chart.type = "line"
        /\ SumCol(chart.data, cb_call.args[3]) = SumCol(rows, cb_call.args[3])
        /\ \A i \in 1..Len(rows) :
               Cardinality({j \in 1..Len(chart.data) :
                   chart.data[j].date = Bucket(rows[i].date, cb_call.args[6])}) = 1

\* C13 as stated: for every date range, continent, country, metric and
\* granularity the sum of the metric over the time buckets of update_time_tab
\* equals the sum over the rows satisfying the filter, and every such row
\* falls in exactly one bucket.
C13_BucketsPartitionRows == TimeFilterMatches => BucketsPartitionRows

\* C13 on the tables in which every row has a date
C13_BucketsPartitionDatedRows ==
    (TimeFilterMatches /\ NoMissingCells(df)) => BucketsPartitionRows

(***************************************************************************)
(* The ranking of update_geo_tab over tables of up to MaxCountries         *)
(* countries, a row each, so that the ranked table is cut at 5.            *)
(***************************************************************************)
\* one row per country, the countries in any number up to MaxCountries, the
\* jobs placed of each from 0 to 2
RankTables ==
    { [columns |-> required_columns,
       rows |-> [i \in 1..k |->
                    DataRow(1, KeyOrder("country")[i], "europe", "18-25",
                            jobs[i], 0, 0, 0)]] :
          <<k, jobs>> \in UNION { { <<n, f>> : f \in [1..n -> 0..2] }
                                  : n \in 0..MaxCountries } }

InitRank ==
    /\ users_df = <<>>
    /\ session_auth = null
    /\ login_output = None
    /\ vu_call = NoCall
    /\ auth_event = NoEvent
    /\ last_writer = NoEvent
    /\ log = <<>>
    /\ df \in RankTables
    /\ cb_call = NoInvocation
    /\ startup = Started(df)
    /\ ui = InitialUi

NextRank ==
    \/ \E continent \in {"all", "europe"}, performance_type \in PerformanceTypes,
          performance_count \in PerformanceCounts :
          update_geo_tab("jobs_placed", continent, "all", performance_type,
                         performance_count)
    \/ Respond

SpecRank == InitRank /\ [][NextRank]_vars

\* the least of two numbers
Min(a, b) == IF a < b THEN a ELSE b

\* the geo callback returned its bar chart of ranked countries
Ranked == cb_call.name = "update_geo_tab" /\ ~cb_call.out.raised
              /\ cb_call.out.ret[4].type = "bar"

\* the place of a country in the grouped table
PlaceIn(map_df, country) == CHOOSE i \in 1..Len(map_df) : map_df[i].country = country

\* C14: with N the selected count and K the number of countries after
\* filtering, the ranked table has min(N, K) rows, each a row of the grouped
\* table; in "top" mode every listed country's sum is >= that of every
\* unlisted one and the rows descend, in "bottom" mode <= and ascend; a tie
\* between a listed and an unlisted country is resolved for the country that
\* comes first in the grouped table.
C14_RankedCountries ==
    Ranked =>
        LET metric   == cb_call.args[1]
            sign     == IF cb_call.args[4] = "top" THEN 1 ELSE -1
            map_df   == cb_call.out.ret[3].data
            ranked   == cb_call.out.ret[4].data
            listed   == Range(ranked)
            unlisted == Range(map_df) \ listed
        IN  /\ Len(ranked) = Min(cb_call.args[5], Len(map_df))
            /\ Cardinality(listed) = Len(ranked)
            /\ listed \subseteq Range(map_df)
            /\ \A l \in listed, u \in unlisted :
                   /\ sign * l[metric] >= sign * u[metric]
                   /\ l[metric] = u[metric]
                          => PlaceIn(map_df, l.country) < PlaceIn(map_df, u.country)
            /\ \A i \in 1..Len(ranked), j \in 1..Len(ranked) :
                   i < j => sign * ranked[i][metric] >= sign * ranked[j][metric]

\* C14 witness: six countries ranked with count 5, the country left out tied
\* with a listed one
C14_Witness ==
    /\ Ranked
    /\ cb_call.args[5] = 5
    /\ Len(cb_call.out.ret[3].data) = 6
    /\ Len(cb_call.out.ret[4].data) = 5
    /\ \E u \in Range(cb_call.out.ret[3].data) \ Range(cb_call.out.ret[4].data) :
           u.jobs_placed = cb_call.out.ret[4].data[5].jobs_placed

\* the summary callback returned its stacked bar chart in percentage view
PercentageView ==
    /\ cb_call.name = "update_summary_tab"
    /\ cb_call.args[3] = "percentage"
    /\ ~cb_call.out.raised
    /\ cb_call.out.ret[2].type = "bar"

\* the four normalized values of a group, fractions <<numerator, denominator>>
\* of which 0/0 is NaN: each is a number from 0 to 100 and they add up to 100
NormalizedTo100(group) ==
    /\ \A i \in 1..Len(metrics) :
           /\ group[metrics[i]][2] > 0
           /\ 0 <= group[metrics[i]][1]
           /\ group[metrics[i]][1] <= 100 * group[metrics[i]][2]
    /\ group[metrics[1]][1] + group[metrics[2]][1] + group[metrics[3]][1]
           + group[metrics[4]][1] = 100 * group[metrics[1]][2]

\* C15 as stated: in percentage view the four normalized metric values of
\* every group are each between 0 and 100 and sum to 100, a group whose four
\* metric totals are all zero included.
C15_PercentagesSumTo100 ==
    PercentageView =>
        \A i \in 1..Len(cb_call.out.ret[2].data) :
            NormalizedTo100(cb_call.out.ret[2].data[i])

\* C15 for the groups that have a non-zero total
C15_PercentagesOfNonZeroGroups ==
    PercentageView =>
        \A i \in 1..Len(cb_call.out.ret[2].data) :
            cb_call.out.ret[2].data[i][metrics[1]][2] # 0
                => NormalizedTo100(cb_call.out.ret[2].data[i])

ExportTables ==
    { [columns |-> required_columns,
       rows |-> [i \in 1..k |-> RowPool[((i + first - 2) % Len(RowPool)) + 1]]] :
          <<k, first>> \in (0..MaxExportRows) \X (1..Len(RowPool)) }

InitExport ==
    /\ users_df = <<>>
    /\ session_auth = null
    /\ login_output = None
    /\ vu_call = NoCall
    /\ auth_event = NoEvent
    /\ last_writer = NoEvent
    /\ log = <<>>
    /\ df \in ExportTables
    /\ cb_call = NoInvocation
    /\ startup = Started(df)
    /\ ui = InitialUi

NextExport ==
    \/ \E start_date \in StartDates, end_date \in EndDates,
          metric \in MetricInputs \cup {"all"}, continent \in ContinentInputs :
          update_export_preview(start_date, end_date, metric, continent)
    \/ \E start_date \in StartDates, end_date \in EndDates,
          metric \in MetricInputs \cup {"all"}, continent \in ContinentInputs :
          download_csv(1, start_date, end_date, metric, continent)
    \/ Respond

SpecExport == InitExport /\ [][NextExport]_vars

\* the file download_csv exports for the selection of a preview invocation
ExportedFor(call) ==
    download_csv_returns(df, 1, call.args[1], call.args[2], call.args[3],
                         call.args[4]).ret[1].content

\* a line of the CSV is a row of the preview: the same columns, the same
\* values, the date written as %Y-%m-%d
SameRow(line, row, header) ==
    /\ DOMAIN row = header
    /\ \A c \in header :
           line[c] = IF c = "date" THEN Fmt("%Y-%m-%d", row[c]) ELSE row[c]

\* C17: for every date range, metric and continent selection the preview is
\* the first 10 rows of exactly the table download_csv exports: the same rows
\* in the same order under the same columns.
C17_PreviewIsHeadOfDownload ==
    (cb_call.name = "update_export_preview" /\ ~Empty(df)) =>
        LET preview == cb_call.out.ret[1]
            csv     == ExportedFor(cb_call)
        IN  /\ Len(preview) = Min(10, Len(csv.lines))
            /\ \A i \in 1..Len(preview) : SameRow(csv.lines[i], preview[i], csv.header)

\* C17 witness: a preview of 10 rows of a single-metric selection that
\* exports more than 10 rows
C17_Witness ==
    /\ cb_call.name = "update_export_preview"
    /\ cb_call.args[3] # "all"
    /\ Len(cb_call.out.ret[1]) = 10
    /\ Len(ExportedFor(cb_call).lines) > 10

(***************************************************************************)
(* The layout of the tabs, as far as the report downloads go: the          *)
(* "Download Report" button and the dcc.Download component of each tab.    *)
(***************************************************************************)
TAB_ORDER == <<"overview", "geo", "time", "age", "summary", "analytics">>

\* the components <tab>_tab() lays out, of those the export callbacks name
tab_components(tab) ==
    CASE tab = "overview"  -> {}
      [] tab = "geo"       -> {"geo-export-btn", "geo-download-report"}
      [] tab = "time"      -> {"time-export-btn", "time-download-report"}
      [] tab = "age"       -> {"age-export-btn", "age-download-report"}
      [] tab = "summary"   -> {"summary-export-btn", "summary-download-report"}
      [] tab = "analytics" -> {"analytics-export-btn"}

\* Input(..., "n_clicks") of the export callback
export_button(report) ==
    CASE report = "export_age_report"       -> "age-export-btn"
      [] report = "export_time_report"      -> "time-export-btn"
      [] report = "export_geo_report"       -> "geo-export-btn"
      [] report = "export_analytics_report" -> "analytics-export-btn"
      [] report = "export_summary_report"   -> "summary-export-btn"

\* Output(..., "data") of the export callback
download_output(report) ==
    CASE report = "export_age_report"       -> "age-download-report"
      [] report = "export_time_report"      -> "time-download-report"
      [] report = "export_geo_report"       -> "geo-download-report"
      [] report = "export_analytics_report" -> "analytics-download-report"
      [] report = "export_summary_report"   -> "summary-download-report"

\* the tab whose layout holds the export button of a report
button_tab(report) ==
    CHOOSE tab \in Range(TAB_ORDER) : export_button(report) \in tab_components(tab)

\* C18: whenever the export button of a report is clicked, the download
\* component its callback writes to is part of the layout of the tab that
\* holds the button, for each of the five report types.
C18_DownloadComponentInTab ==
    (cb_call.name \in Reports /\ cb_call.args[1] = 1) =>
        download_output(cb_call.name) \in tab_components(button_tab(cb_call.name))

\* C18, but for the analytics report: the four other reports have their
\* download component in the tab of their button
C18_DownloadComponentInOtherTabs ==
    (cb_call.name \in Reports \ {"export_analytics_report"} /\ cb_call.args[1] = 1) =>
        download_output(cb_call.name) \in tab_components(button_tab(cb_call.name))

(***************************************************************************)
(* The content of the PDF reports.                                         *)
(***************************************************************************)
\* the story of the report an export callback returned, if it returned one
ReportReturned == cb_call.name \in Reports /\ cb_call.out.ret[1] # no_update

ReportStory == cb_call.out.ret[1].story

\* the charts of a story: the headings its images stand under
ImagesOf(story) == SelectSeq(story, LAMBDA e : e.kind = "Image")

\* the position of a chart in the fixed order of its report type
ChartPosition(report, heading) ==
    CHOOSE i \in 1..Len(report_headings(report)) : report_headings(report)[i] = heading

\* the title comes first and the images follow in the order of the report type
TitleThenImagesInOrder(report, story) ==
    LET images == ImagesOf(story)
    IN  /\ story[1] = Paragraph(report_title(report), "Title")
        /\ \A k \in 2..Len(story) : story[k].kind # "Title"
        /\ \A k \in 1..Len(images) : images[k].text \in Range(report_headings(report))
        /\ \A j, k \in 1..Len(images) :
               j < k => ChartPosition(report, images[j].text)
                          < ChartPosition(report, images[k].text)

\* C19: every PDF report an export callback returns consists of the report
\* title first, followed by one or more chart images in the fixed order of
\* that report type.
C19_TitleThenOneOrMoreCharts ==
    ReportReturned =>
        /\ TitleThenImagesInOrder(cb_call.name, ReportStory)
        /\ Len(ImagesOf(ReportStory)) >= 1

\* C19 without "one or more": the title is first and whatever images the
\* report has are in the fixed order
C19_TitleThenChartsInOrder ==
    ReportReturned => TitleThenImagesInOrder(cb_call.name, ReportStory)

\* a report of the title alone
C19_TitleOnlyReport ==
    ReportReturned /\ Len(ReportStory) = 1

(***************************************************************************)
(* The import of the module: load_data() on the metrics file, then the     *)
(* module-level statements that read the table it returned.                *)
(***************************************************************************)
\* a file that is not there, and a file read_csv cannot parse (it raises
\* EmptyDataError, ParserError, ...)
AbsentFile == [columns |-> {}, rows |-> <<>>, exists |-> FALSE]
UnreadableFile == [columns |-> {}, rows |-> <<>>, exists |-> TRUE]

\* test_dataPD.csv as read_csv reads it: absent, unreadable, or at most MaxRows
\* rows under the required columns or under all of them but one
MetricFiles ==
    {AbsentFile, UnreadableFile} \cup
    { [columns |-> required_columns \ missing,
       rows |-> [i \in 1..n |-> Project(RowPool[pick[i]], required_columns \ missing)],
       exists |-> TRUE] :
          <<missing, n, pick>> \in
              UNION { UNION { { <<m, k, f>> : f \in [1..k -> 1..Len(RowPool)] }
                              : k \in 0..MaxRows }
                      : m \in {{}} \cup {{c} : c \in required_columns} } }

\* a line given to logger, with the value formatted into it
LogLine(line, detail) == [line |-> line, detail |-> detail]

\* load_data(): the table returned and the lines logged.  df['date'] of a
\* file without that column raises KeyError inside the try
load_data_returns(file) ==
    IF ~file.exists
    THEN [log |-> <<LogLine("Data file 'test_dataPD.csv' not found.", {})>>,
          table |-> NoTable]
    ELSE IF file.columns = {}
    THEN [log |-> <<LogLine("Error loading data", {})>>, table |-> NoTable]
    ELSE IF "date" \notin file.columns
    THEN [log |-> <<LogLine("Error loading data", {"date"})>>, table |-> NoTable]
    ELSE LET missing_columns == required_columns \ file.columns
         IN  [log |-> IF missing_columns # {}
                      THEN <<LogLine("Missing columns", missing_columns)>>
                      ELSE <<>>,
              table |-> [columns |-> file.columns, rows |-> file.rows]]

\* users.csv as read_csv reads it: absent, unreadable, without its
\* password_hash column, or with the registered users
UsersFiles ==
    {AbsentFile, UnreadableFile,
     [columns |-> {"username", "role"},
      rows |-> <<[username |-> "analyst1", role |-> "analyst"]>>, exists |-> TRUE],
     [columns |-> {"username", "password_hash", "role"}, rows |-> GateUsers,
      exists |-> TRUE]}

\* load_users(): the table returned and the lines logged.  Indexing
\* users['password_hash'] of a file without that column raises KeyError inside
\* the try
load_users_returns(file) ==
    IF ~file.exists
    THEN [log |-> <<LogLine("users.csv not found. Creating empty user DataFrame.", {})>>,
          table |-> [columns |-> {"username", "password_hash", "role"}, rows |-> <<>>]]
    ELSE IF "password_hash" \notin file.columns
    THEN [log |-> <<LogLine("Could not load users.csv", file.columns)>>,
          table |-> [columns |-> {"username", "password_hash", "role"}, rows |-> <<>>]]
    ELSE [log |-> <<>>, table |-> [columns |-> file.columns, rows |-> file.rows]]

\* users_df = load_users()
LoadUsers ==
    /\ startup.pc = "load_users"
    /\ users_df' = load_users_returns(startup.users).table.rows
    /\ log' = load_users_returns(startup.users).log
    /\ startup' = [startup EXCEPT !.pc = "load_data"]
    /\ UNCHANGED <<session_auth, login_output, vu_call, auth_event, last_writer,
                   df, cb_call, ui>>

\* df = load_data()
LoadData ==
    /\ startup.pc = "load_data"
    /\ df' = load_data_returns(startup.file).table
    /\ log' = log \o load_data_returns(startup.file).log
    /\ startup' = [startup EXCEPT !.pc = "module"]
    /\ UNCHANGED <<users_df, session_auth, login_output, vu_call, auth_event,
                   last_writer, cb_call, ui>>

\* the exception of the statements after df = load_data(): continents and
\* countries index their column whenever the table is not empty
module_exception(t) ==
    IF ~Empty(t) /\ ~({"continent", "country"} \subseteq t.columns)
    THEN "KeyError" ELSE ""

\* the module-level statements from "if df.empty:" to age_groups
ModuleStatements ==
    /\ startup.pc = "module"
    /\ log' = IF Empty(df)
              THEN log \o <<LogLine("Empty DataFrame loaded.", {})>>
              ELSE log
    /\ startup' = [startup EXCEPT
                      !.pc = IF module_exception(df) = "" THEN "ready" ELSE "failed",
                      !.uncaught = module_exception(df)]
    /\ UNCHANGED <<users_df, session_auth, login_output, vu_call, auth_event,
                   last_writer, df, cb_call, ui>>

InitStartup ==
    /\ users_df = <<>>
    /\ session_auth = null
    /\ login_output = None
    /\ vu_call = NoCall
    /\ auth_event = NoEvent
    /\ last_writer = NoEvent
    /\ log = <<>>
    /\ df = NoTable
    /\ cb_call = NoInvocation
    /\ ui = InitialUi
    /\ startup \in {[users |-> u, pc |-> "load_users", file |-> f, uncaught |-> ""] :
                         <<u, f>> \in UsersFiles \X MetricFiles}

NextStartup ==
    \/ LoadUsers
    \/ LoadData
    \/ ModuleStatements

SpecStartup == InitStartup /\ [][NextStartup]_vars

\* the required columns a file lacks
MissingIn(file) == required_columns \ file.columns

\* the import got through with the rows of the file, after a warning that
\* names the columns the file lacks
StartedWithRows ==
    /\ startup.pc = "ready"
    /\ df = [columns |-> startup.file.columns, rows |-> startup.file.rows]
    /\ \E i \in 1..Len(log) :
           log[i] = LogLine("Missing columns", MissingIn(startup.file))

\* C20: when the metrics file lacks any of the ten required columns, the
\* import of the module ends without an uncaught exception, with the rows of
\* the file kept and a warning logged that names the missing columns.
C20_MissingColumnNotFatal ==
    (/\ startup.pc \in {"ready", "failed"}
     /\ startup.file.exists
     /\ startup.file.columns # {}
     /\ MissingIn(startup.file) # {}) => StartedWithRows

\* C20 for the columns the import does not index: every required column but
\* date, country and continent
C20_MissingUnindexedColumnNotFatal ==
    (/\ startup.pc \in {"ready", "failed"}
     /\ startup.file.exists
     /\ startup.file.columns # {}
     /\ MissingIn(startup.file) # {}
     /\ MissingIn(startup.file) \cap IndexedAtStartup = {}) => StartedWithRows

\* an import that ended in an uncaught KeyError with rows in the file
C20_ImportFailed ==
    startup.pc = "failed" /\ startup.uncaught = "KeyError"

(***************************************************************************)
(* The dashboard after an import that found no usable users.csv and no     *)
(* usable test_dataPD.csv.                                                 *)
(***************************************************************************)
UnusableFiles == {AbsentFile, UnreadableFile}

InitDegraded ==
    /\ startup \in {[users |-> u, pc |-> "ready", file |-> f, uncaught |-> ""] :
                         <<u, f>> \in UnusableFiles \X UnusableFiles}
    /\ users_df = load_users_returns(startup.users).table.rows
    /\ df = load_data_returns(startup.file).table
    /\ log = load_users_returns(startup.users).log \o load_data_returns(startup.file).log
                \o <<LogLine("Empty DataFrame loaded.", {})>>
    /\ session_auth = null
    /\ login_output = None
    /\ vu_call = NoCall
    /\ auth_event = NoEvent
    /\ last_writer = NoEvent
    /\ cb_call = NoInvocation
    /\ ui = InitialUi

NextDegraded ==
    \/ \E username \in UsernameInputs, password \in PasswordInputs :
          VerifyUserCall(username, password)
    \/ DataCallbacks
    \/ Respond

SpecDegraded == InitDegraded /\ [][NextDegraded]_vars

\* the values the continent dropdowns of the layout offer: "all" and the
\* continents of the table
OfferedContinents(t) ==
    {"all"} \cup (IF Empty(t) THEN {}
                  ELSE {t.rows[i].continent : i \in 1..Len(t.rows)} \ {NaN})

\* the continent an invocation carries, "all" when its callback has none
ContinentOf(call) ==
    CASE call.name \in {"update_analytics_tab", "update_export_preview",
                        "update_time_tab"} -> call.args[4]
      [] call.name \in {"update_geo_tab", "update_age_tab"} -> call.args[2]
      [] call.name \in {"update_summary_tab", "update_time_country_options",
                        "update_age_country_options", "update_country_options"} ->
             call.args[1]
      [] call.name = "download_csv" -> call.args[5]
      [] OTHER -> "all"

\* a callback that reads the table was invoked with a continent the layout offers
TableCallbackInvoked ==
    /\ cb_call.name \notin {"none"} \cup Reports
    /\ ContinentOf(cb_call) \in OfferedContinents(df)

\* C21: after an import that found the users file and the metrics file
\* absent or unreadable, verify_user returns False for every input, and every
\* data callback answers with its placeholder, a value for each of its
\* outputs computed without touching a column; download_csv returns nothing.
C21_DegradesToPlaceholders ==
    /\ vu_call.called => (~vu_call.raised /\ vu_call.ret = FALSE)
    /\ TableCallbackInvoked =>
           /\ ~cb_call.out.raised
           /\ ~cb_call.out.aggregated
           /\ Len(cb_call.out.ret) = declared_outputs(cb_call.name)
           /\ cb_call.name = "download_csv" => cb_call.out.ret = <<null>>

\* C21 without the count of values: no verify_user call succeeds or raises,
\* and every data callback returns before it reads a column
C21_DegradesWithoutRaising ==
    /\ vu_call.called => (~vu_call.raised /\ vu_call.ret = FALSE)
    /\ TableCallbackInvoked =>
           /\ ~cb_call.out.raised
           /\ ~cb_call.out.aggregated
           /\ cb_call.name = "download_csv" => cb_call.out.ret = <<null>>

\* C21, the loading itself (under SpecStartup): an absent or unreadable file
\* gives the empty table and a log line, and the import completes
C21_UnusableFilesLoadEmpty ==
    (startup.pc \in {"ready", "failed"}) =>
        /\ startup.users \in UnusableFiles =>
               /\ users_df = <<>>
               /\ load_users_returns(startup.users).table.columns
                     = {"username", "password_hash", "role"}
               /\ \E i \in 1..Len(log) : log[i] \in
                      {LogLine("users.csv not found. Creating empty user DataFrame.", {}),
                       LogLine("Could not load users.csv", {})}
        /\ startup.file \in UnusableFiles =>
               /\ df = NoTable
               /\ startup.pc = "ready"
               /\ \E i \in 1..Len(log) : log[i] \in
                      {LogLine("Data file 'test_dataPD.csv' not found.", {}),
                       LogLine("Error loading data", {})}

(***************************************************************************)
(* The date-range filter, seen through what the callbacks return.          *)
(***************************************************************************)
\* the four callbacks with a date range
DateRangeCallbacks ==
    {"update_analytics_tab", "update_time_tab", "update_export_preview", "download_csv"}

\* a date is within the range: always when no bound is given, and else only a
\* parsed date that is on or after the start and on or before the end
WithinRange(date, start_date, end_date) ==
    (start_date # NoDate \/ end_date # NoDate) =>
        /\ date # NaT
        /\ start_date # NoDate => start_date <= date
        /\ end_date # NoDate => date <= end_date

\* the rows the filters of an invocation should keep: within the range and
\* of the continent and country selected
RowsInRange(call) ==
    LET a == IF call.name = "download_csv" THEN Tail(call.args) ELSE call.args
    IN  SelectSeq(df.rows, LAMBDA r :
            /\ WithinRange(r.date, a[1], a[2])
            /\ a[4] # "all" => r.continent = a[4]
            /\ (call.name = "update_time_tab" /\ a[5] # "all") => r.country = a[5])

\* the metric an invocation selects
MetricOf(call) ==
    IF call.name = "download_csv" THEN call.args[4] ELSE call.args[3]

\* C22: in the analytics, time, export-preview and CSV-download callbacks the
\* date-range filter keeps exactly the rows whose date d satisfies
\* start <= d <= end, a missing bound not restricting; a row whose date did
\* not parse is dropped when a bound is given and kept when neither is.
C22_DateRangeFilter ==
    (cb_call.name \in DateRangeCallbacks /\ ~Empty(df) /\ ~cb_call.out.raised
        /\ MetricOf(cb_call) \in df.columns \cup {"all"}) =>
        LET kept == RowsInRange(cb_call)
            ret  == cb_call.out.ret
            dated == SelectSeq(kept, LAMBDA r : r.date # NaT)
        IN  CASE cb_call.name = "update_export_preview" ->
                     /\ Len(ret[1]) = Len(kept)
                     /\ \A i \in 1..Len(kept) :
                            ret[1][i] = Project(kept[i], DOMAIN ret[1][i])
              [] cb_call.name = "download_csv" ->
                     /\ Len(ret[1].content.lines) = Len(kept)
                     /\ \A i \in 1..Len(kept) :
                            \A c \in ret[1].content.header \ {"date"} :
                                ret[1].content.lines[i][c] = kept[i][c]
                     /\ \A i \in 1..Len(kept) :
                            ret[1].content.lines[i].date = Fmt("%Y-%m-%d", kept[i].date)
              [] cb_call.name = "update_analytics_tab" ->
                     IF kept = <<>> THEN ret[1] = Times("No data", 5)
                     ELSE ret[1] = Fmt(",.0f", SumCol(kept, MetricOf(cb_call)))
              [] cb_call.name = "update_time_tab" ->
                     IF kept = <<>> THEN ret[1] = Figure
                     ELSE /\ ret[1] # Figure
                          /\ SumCol(ret[1].data, MetricOf(cb_call))
                                = SumCol(dated, MetricOf(cb_call))

\* C22 witness: a preview from date 9 on of a table with a row dated 9 and a
\* row without a date kept the first and dropped the second
C22_Witness ==
    /\ cb_call.name = "update_export_preview"
    /\ cb_call.args[1] = 9
    /\ \E i, j \in 1..Len(df.rows) : df.rows[i].date = 9 /\ df.rows[j].date = NaT
    /\ Len(cb_call.out.ret[1]) = 1
    /\ cb_call.out.ret[1][1].date = 9

(***************************************************************************)
(* Failures while a report is generated.                                   *)
(***************************************************************************)
\* the headings of the charts that should be in a report: those of the held
\* figures that rendered, in the order of the report type
RenderedHeadings(report, held, renders) ==
    SelectSeq(report_headings(report),
              LAMBDA h : ChartPosition(report, h) \in held \cap renders)

\* C23: a chart image that fails to render is skipped alone: the export
\* callback still returns a PDF with the title and every other chart that
\* rendered; the callback returns no update exactly when the document build
\* fails or there is no click count, and without a click it logs nothing.
C23_RenderFailureSkipsOneChart ==
    (cb_call.name \in Reports) =>
        LET n_clicks == cb_call.args[1]
            held     == cb_call.args[2]
            renders  == cb_call.args[3]
            builds   == cb_call.args[4]
            ret      == cb_call.out.ret[1]
            images   == ImagesOf(ret.story)
        IN  /\ ~cb_call.out.raised
            /\ (ret = no_update) <=> (n_clicks = 0 \/ ~builds)
            /\ n_clicks = 0 => cb_call.out.log = <<>>
            /\ ret # no_update =>
                   /\ ret.story[1] = Paragraph(report_title(cb_call.name), "Title")
                   /\ [k \in 1..Len(images) |-> images[k].text]
                         = RenderedHeadings(cb_call.name, held, renders)

\* C23 witness: a report of three held charts of which the second failed to
\* render was returned with the two others
C23_Witness ==
    /\ cb_call.name = "export_summary_report"
    /\ cb_call.args = <<1, {1, 2, 3}, {1, 3}, TRUE>>
    /\ Len(ImagesOf(cb_call.out.ret[1].story)) = 2

(***************************************************************************)
(* The figures of the overview tab.                                        *)
(***************************************************************************)
\* the overview tab is shown on a table with rows
OverviewShown ==
    /\ cb_call.name = "update_overview_content"
    /\ cb_call.args[1] = "overview"
    /\ ~Empty(df)

\* the jobs placed in a country, over the whole table
JobsPlacedIn(country) ==
    SumCol(SelectSeq(df.rows, LAMBDA r : r.country = country), "jobs_placed")

\* the cards show the totals of the whole table, the top country has the most
\* jobs placed, and the best metric is the first of the metrics with the
\* greatest total
OverviewFigures ==
    LET ret == cb_call.out.ret
    IN  /\ Range(metrics) \subseteq df.columns
        /\ Len(ret) = 8
        /\ \A i \in 1..4 : ret[i] = Fmt(",", SumCol(df.rows, metrics[i]))
        /\ \E k \in 1..Len(df.rows) :
               /\ ret[6] = df.rows[k].country
               /\ \A j \in 1..Len(df.rows) :
                      df.rows[j].country # NaN =>
                          JobsPlacedIn(df.rows[j].country) <= JobsPlacedIn(ret[6])
        /\ \E i \in 1..4 :
               /\ ret[8] = metric_map(metrics[i])
               /\ \A j \in 1..4 : SumCol(df.rows, metrics[j]) <= SumCol(df.rows, metrics[i])
               /\ \A j \in 1..(i - 1) : SumCol(df.rows, metrics[j]) < SumCol(df.rows, metrics[i])

\* C24: on the overview tab with a non-empty dataset each of the four cards
\* shows the sum of its metric over the whole table, top country is a country
\* whose summed jobs_placed is maximal, and best metric is the metric whose
\* total is maximal, a tie going to the earliest metric.
C24_OverviewFigures == OverviewShown => OverviewFigures

\* C24 on the tables that have the four metric columns and no missing date,
\* country or age-group cell
C24_OverviewFiguresOfCleanTables ==
    (OverviewShown /\ Range(metrics) \subseteq df.columns /\ NoMissingCells(df))
        => OverviewFigures

\* an overview of a table with all its columns that shows the error
\* placeholder
C24_OverviewErrorOnFullTable ==
    /\ OverviewShown
    /\ Range(metrics) \subseteq df.columns
    /\ cb_call.out.ret[3] = "Error"

(***************************************************************************)
(* Duplicate usernames in the user table.                                  *)
(***************************************************************************)
\* the positions of the rows of users_df that carry a username
RowsOf(username) == {i \in 1..Len(users_df) : users_df[i].username = username}

\* the password is the one a stored hash was made from
MatchesHash(password, hash) ==
    hash.prefix = "$2b$" /\ hash.digest = <<hash.salt, password>>

\* verify_user was called with a username that several rows carry
DuplicateLookup ==
    /\ vu_call.called
    /\ vu_call.username \notin {"", None}
    /\ vu_call.password \notin {"", None}
    /\ Cardinality(RowsOf(vu_call.username)) >= 2

\* the first of a non-empty set of positions
First(positions) == CHOOSE i \in positions : \A j \in positions : i <= j

\* C25: when several rows of the user table carry the same username,
\* verify_user checks the password against the hash of the first such row
\* only, so a password that matches only a later duplicate row is rejected.
C25_FirstDuplicateOnly ==
    DuplicateLookup =>
        vu_call.ret = MatchesHash(vu_call.password,
                          users_df[First(RowsOf(vu_call.username))].password_hash)

\* C25 witness: the password matches the second row of the username and not
\* the first, and the check rejected it
C25_Witness ==
    /\ DuplicateLookup
    /\ ~vu_call.ret
    /\ ~MatchesHash(vu_call.password, users_df[1].password_hash)
    /\ MatchesHash(vu_call.password, users_df[2].password_hash)

(***************************************************************************)
(* The page: display_page renders page-content from session-auth, and      *)
(* update_active_tab renders tab-content and writes active-tab-store.      *)
(* Dash calls a callback when one of its inputs changes, and, when a       *)
(* callback inserts components, the callbacks that have an input among     *)
(* them and an output outside them.                                        *)
(***************************************************************************)
\* display_page that shows the dashboard for every session value that exists
display_page_any_session(auth) ==
    IF auth # null THEN "dashboard_layout" ELSE "login_layout"

\* what display_page(auth) returns: dashboard_layout() or login_layout
display_page(auth) ==
    IF Authenticated(auth) THEN "dashboard_layout" ELSE "login_layout"

\* display_page answers a change of session-auth (the first value included);
\* a dashboard_layout() it returns holds an empty tab-content.  visits counts
\* the dashboards shown so far, up to MaxVisits.
DisplayPage ==
    LET shown == display_page(session_auth)
    IN  /\ ui.seen_auth # <<session_auth>>
        /\ ui' = [ui EXCEPT
                    !.page = shown,
                    !.tab_content = IF shown = "dashboard_layout"
                                    THEN EmptyChildren ELSE NoComponent,
                    !.seen_auth = <<session_auth>>,
                    !.chunk = IF shown = "dashboard_layout" THEN "inserted" ELSE "none",
                    !.visits = IF shown = "dashboard_layout" /\ ui.visits < MaxVisits
                               THEN ui.visits + 1 ELSE ui.visits]
        /\ UNCHANGED <<users_df, session_auth, login_output, vu_call, auth_event,
                       last_writer, log, df, cb_call, startup>>

\* the name key_tab of the function that builds the layout of tab key
tab_function(key) == key \o "_tab"

\* the functions of the module that build the layout of a tab
TabFunctions == {tab_function(key) : key \in Range(TAB_ORDER) \cup {"export"}}

\* the other names of the module that end in _tab: callbacks, which take the
\* values of their inputs as arguments
TabCallbacks ==
    {"update_analytics_tab", "update_geo_tab", "update_time_tab",
     "update_age_tab", "update_summary_tab"}

\* the id of a component as the prop_id of ctx.triggered spells it, in
\* pieces: a nav link is "tab-" and its key, a quick link is the JSON of its
\* id, whose keys Dash sorts
NavId(key) == <<"tab-", key>>
QuickLinkId(index) == <<"{\"index\":", index, ",\"type\":\"quick-link\"}">>

\* the quick links overview_tab() offers
QuickLinks == {"overview", "geo", "time", "export"}

\* triggered_id.startswith(prefix)
StartsWith(id, prefix) == Len(id) > 0 /\ id[1] = prefix

RECURSIVE Join(_)
Join(pieces) == IF pieces = <<>> THEN "" ELSE Head(pieces) \o Join(Tail(pieces))

NotTabPrefix(piece) == piece # "tab-"

\* triggered_id.replace('tab-', '')
WithoutTabPrefix(id) == Join(SelectSeq(id, NotTabPrefix))

\* update_active_tab(*args) with ctx.triggered naming the components of
\* triggered, called at the given depth of the interpreter's stack.  The
\* name update_active_tab ends in _tab as well, and the function takes any
\* arguments: a quick link of index "update_active" makes it call itself
\* until the interpreter raises RecursionError, which the innermost handler
\* catches.
RECURSIVE update_active_tab_at(_, _)
update_active_tab_at(triggered, depth) ==
    LET overview == Returned(<<"overview", Layout("overview_tab")>>, FALSE)
    IN  IF triggered = <<>> THEN overview
        ELSE LET triggered_id == triggered[1]
             IN  IF StartsWith(triggered_id, "{\"index\":")
                 THEN LET tab_key == triggered_id[2]
                          fn      == tab_function(tab_key)
                          called  ==
                              IF fn \in TabFunctions THEN Returned(Layout(fn), FALSE)
                              ELSE IF fn \in TabCallbacks THEN Raised("TypeError", FALSE)
                              ELSE IF fn # "update_active_tab" THEN Raised("KeyError", FALSE)
                              ELSE IF depth = RecursionLimit
                              THEN Raised("RecursionError", FALSE)
                              ELSE Returned([tuple |->
                                      update_active_tab_at(triggered, depth + 1).ret],
                                      FALSE)
                      IN  IF called.raised THEN overview
                          ELSE Returned(<<tab_key, called.ret>>, FALSE)
                 ELSE IF StartsWith(triggered_id, "tab-")
                         /\ WithoutTabPrefix(triggered_id) \in Range(TAB_ORDER)
                 THEN Returned(<<WithoutTabPrefix(triggered_id),
                                 Layout(tab_function(WithoutTabPrefix(triggered_id)))>>,
                               FALSE)
                 ELSE overview

\* update_active_tab that writes the key and leaves the overview in place
update_active_tab_keeps_overview(triggered) ==
    LET out == update_active_tab_at(triggered, 1)
    IN  [out EXCEPT !.ret = <<out.ret[1], Layout("overview_tab")>>]

\* what update_active_tab returns when Dash calls it
update_active_tab_returns(triggered) == update_active_tab_at(triggered, 1)

\* update_active_tab answers a request: Dash writes active-tab-store and the
\* children of tab-content
update_active_tab(triggered) ==
    LET out == update_active_tab_returns(triggered)
    IN  /\ cb_call' = Invocation("update_active_tab", <<triggered>>, out)
        /\ log' = out.log
        /\ ui' = [ui EXCEPT !.active_tab = out.ret[1],
                            !.tab_content = out.ret[2],
                            !.chunk = "rendered"]
        /\ UNCHANGED <<users_df, session_auth, login_output, vu_call, auth_event,
                       last_writer, df, startup>>

\* the nav links of dashboard_layout(), in the order of the layout
NavLinks == [i \in 1..Len(TAB_ORDER) |-> NavId(TAB_ORDER[i])]

InitPage ==
    /\ users_df = GateUsers
    /\ df = NoTable
    /\ session_auth = null
    /\ login_output = None
    /\ vu_call = NoCall
    /\ auth_event = NoEvent
    /\ last_writer = NoEvent
    /\ log = <<>>
    /\ cb_call = NoInvocation
    /\ startup = Started(df)
    /\ ui = InitialUi

\* the events of a browser on the page: the login form is there while the
\* login layout is shown, the logout button and the nav links while the
\* dashboard is, the quick links while tab-content holds the overview.  The
\* dashboard just inserted calls logout and update_active_tab with no click,
\* before any click on it is answered.
NextPage ==
    \/ DisplayPage
    \/ /\ ui.page = "login_layout"
       /\ \E username \in UsernameInputs, password \in PasswordInputs,
             remember \in BOOLEAN, uuid \in SessionIds :
             login(1, username, password, remember, uuid)
    \/ /\ ui.page = "dashboard_layout"
       /\ \E n_clicks \in Clicks : logout(n_clicks)
    \/ /\ ui.chunk = "inserted"
       /\ update_active_tab(NavLinks)
    \/ /\ ui.chunk = "rendered"
       /\ \E tab \in Range(TAB_ORDER) : update_active_tab(<<NavId(tab)>>)
    \/ /\ ui.chunk = "rendered"
       /\ ui.tab_content = Layout("overview_tab")
       /\ \E index \in QuickLinks : update_active_tab(<<QuickLinkId(index)>>)

SpecPage == InitPage /\ [][NextPage]_vars

\* display_page has answered the current value of session-auth
PageSettled == ui.seen_auth = <<session_auth>>

\* C26: the page shown follows the session: after any sequence of login and
\* logout events, once display_page has answered the last change of the
\* session, the dashboard layout is shown exactly when the session value
\* exists and its authenticated flag is true, and the login layout otherwise.
C26_PageFollowsSession ==
    PageSettled
        => /\ ui.page \in {"dashboard_layout", "login_layout"}
           /\ ui.page = "dashboard_layout"
                <=> /\ session_auth # null
                    /\ "authenticated" \in DOMAIN session_auth
                    /\ session_auth.authenticated

\* the login layout is shown for the session a logout click wrote
C26_Witness ==
    /\ PageSettled
    /\ session_auth = [authenticated |-> FALSE, user |-> None]
    /\ last_writer.op = "logout"
    /\ ui.page = "login_layout"
    /\ ui.visits > 0

(***************************************************************************)
(* update_active_tab as a function of ctx.triggered.                       *)
(***************************************************************************)
\* the ids a request can name: the nav links and the quick links of the
\* layout, and ids the layout does not hold
TriggerIds ==
    {NavId(key) : key \in Range(TAB_ORDER) \cup {"export", "unknown"}}
        \cup {<<"tab-", "tab-", "geo">>, <<"logout-btn">>}
        \cup {QuickLinkId(index) :
                index \in QuickLinks \cup {"age", "unknown", "update_geo", "update_active"}}

\* ctx.triggered: no, one or two changed properties
TriggeredInputs == UNION {[1..n -> TriggerIds] : n \in 0..2}

\* the dashboard has just been shown to a signed-in user
InitTabs ==
    /\ users_df = GateUsers
    /\ df = NoTable
    /\ session_auth = [authenticated |-> TRUE, user |-> "analyst1", session_id |-> 1]
    /\ login_output = None
    /\ vu_call = NoCall
    /\ auth_event = NoEvent
    /\ last_writer = NoEvent
    /\ log = <<>>
    /\ cb_call = NoInvocation
    /\ startup = Started(df)
    /\ ui = [InitialUi EXCEPT !.page = "dashboard_layout",
                              !.tab_content = EmptyChildren,
                              !.seen_auth = <<session_auth>>,
                              !.chunk = "inserted",
                              !.visits = 1]

NextTabs == \E triggered \in TriggeredInputs : update_active_tab(triggered)

SpecTabs == InitTabs /\ [][NextTabs]_vars

\* the keys of the tabs that have a layout function
TabKeys == Range(TAB_ORDER) \cup {"export"}

\* the key the first triggered id asks for: the tab of a nav link of
\* TAB_ORDER, the index of a quick link that has a layout function, and the
\* overview in every other case
KeyAskedFor(triggered) ==
    IF triggered = <<>> THEN "overview"
    ELSE IF \E tab \in Range(TAB_ORDER) : triggered[1] = NavId(tab)
    THEN triggered[1][2]
    ELSE IF \E index \in TabKeys : triggered[1] = QuickLinkId(index)
    THEN triggered[1][2]
    ELSE "overview"

ActiveTabCalled == cb_call.name = "update_active_tab"

\* the quick link whose index names update_active_tab itself is triggered
SelfNamedQuickLink ==
    /\ cb_call.args[1] # <<>>
    /\ cb_call.args[1][1] = QuickLinkId("update_active")

\* the pair is (key, key_tab()) for the key asked for
PairOfKeyAskedFor ==
    /\ ~cb_call.out.raised
    /\ Len(cb_call.out.ret) = 2
    /\ cb_call.out.ret[1] = KeyAskedFor(cb_call.args[1])
    /\ cb_call.out.ret[2] = Layout(tab_function(cb_call.out.ret[1]))

\* C27: update_active_tab never raises and returns a pair (key, layout) with
\* layout built by key_tab: (X, X_tab()) for a nav tab X of TAB_ORDER,
\* (i, i_tab()) for a quick link of index i that has such a function, and
\* ("overview", overview_tab()) in every other case; the key is one of the
\* six keys of TAB_ORDER or "export".
C27_ActiveTabPair ==
    ActiveTabCalled
        => /\ PairOfKeyAskedFor
           /\ cb_call.out.ret[1] \in TabKeys

\* the first triggered id is "tab-" followed by more than the key: replace
\* removes every "tab-" of it
RepeatedTabPrefix ==
    /\ cb_call.args[1] # <<>>
    /\ StartsWith(cb_call.args[1][1], "tab-")
    /\ Len(cb_call.args[1][1]) > 2

\* the same for every request but those whose first triggered id is the
\* quick link of index "update_active" or repeats the prefix "tab-"
C27_ActiveTabPairOfOtherIds ==
    ActiveTabCalled /\ ~SelfNamedQuickLink /\ ~RepeatedTabPrefix
        => /\ PairOfKeyAskedFor
           /\ cb_call.out.ret[1] \in TabKeys

\* whatever is triggered, the call returns a pair and raises nothing
C27_ActiveTabNeverRaises ==
    ActiveTabCalled => ~cb_call.out.raised /\ Len(cb_call.out.ret) = 2

\* a request stores a key that is no tab, with a children value that is no
\* layout
C27_SelfNamedKeyStored ==
    /\ ActiveTabCalled
    /\ SelfNamedQuickLink
    /\ ~cb_call.out.raised
    /\ cb_call.out.ret[1] = "update_active"
    /\ ui.active_tab = "update_active"
    /\ "tuple" \in DOMAIN ui.tab_content

C28_StoreKeptAcrossLogout ==
    /\ ui.page = "dashboard_layout"
    /\ ui.chunk = "inserted"
    /\ ui.visits = 2
    /\ ui.active_tab = "geo"
    /\ ui.tab_content = EmptyChildren

(***************************************************************************)
(* The country options of the geo, time, age and summary tabs.             *)
(***************************************************************************)
OptionsCallbacks ==
    {"update_time_country_options", "update_age_country_options",
     "update_country_options"}

\* a callback that writes the options of a country dropdown has answered
CountryOptionsCalled ==
    cb_call.name \in OptionsCallbacks \cup {"update_geo_tab"}

\* the continent it was called with
ContinentSelected ==
    IF cb_call.name = "update_geo_tab" THEN cb_call.args[2] ELSE cb_call.args[1]

\* where x stands in a list
PositionIn(list, x) == CHOOSE i \in 1..Len(list) : list[i] = x

\* the values of a list of options are the countries of the rows of the
\* continent, each once, in ascending order, after the value "all"
OptionsOfContinent(options, continent) ==
    /\ Len(options) > 0
    /\ options[1] = AllCountries
    /\ {options[i].value : i \in 2..Len(options)} = countries_in_continent(df, continent)
    /\ \A i \in 2..Len(options) : options[i].label = Title(options[i].value)
    /\ \A i, j \in 2..Len(options) :
           i < j => PositionIn(KeyOrder("country"), options[i].value)
                        < PositionIn(KeyOrder("country"), options[j].value)

CountryOptionsAsStated ==
    /\ ~cb_call.out.raised
    /\ IF ContinentSelected = "all"
       THEN cb_call.out.ret[1] = <<AllCountries>> /\ cb_call.out.ret[2] = TRUE
       ELSE OptionsOfContinent(cb_call.out.ret[1], ContinentSelected)
                /\ cb_call.out.ret[2] = FALSE

\* C29: the four country-option callbacks compute the same function of the
\* continent: for "all" the single option "all" and a disabled dropdown, for a
\* continent C the option "all" followed by the distinct countries of the
\* rows of C in ascending order, and an enabled dropdown.
C29_SameCountryOptions == CountryOptionsCalled => CountryOptionsAsStated

\* the same when the table has rows, none of the rows of the continent lacks
\* its country, and, for the geo tab, the metric is a column of the table
C29_SameCountryOptionsOfCleanTables ==
    /\ CountryOptionsCalled
    /\ ~Empty(df)
    /\ NaN \notin countries_in_continent(df, ContinentSelected)
    /\ (cb_call.name = "update_geo_tab" => cb_call.args[1] \in df.columns)
    => CountryOptionsAsStated

\* the geo tab offers no option at all, not even "all", where the other three
\* callbacks offer "all"
C29_GeoOffersNothing ==
    /\ cb_call.name = "update_geo_tab"
    /\ ContinentSelected = "all"
    /\ ~cb_call.out.raised
    /\ cb_call.out.ret[1] = <<>>
    /\ cb_call.out.ret[2] = TRUE
    /\ country_options_returns(df, "all").ret[1] = <<AllCountries>>

(***************************************************************************)
(* The continent and country dropdowns of the geo, time, age and summary   *)
(* tabs.  The callbacks write the options and the disabled flag of the     *)
(* country dropdown and never its value; a dcc.Dropdown whose value is not *)
(* among the options it receives sets its value to None.                   *)
(***************************************************************************)
FilterTabs == {"geo", "time", "age", "summary"}

\* a table with two continents, one of them with two countries
FilterTable ==
    [columns |-> required_columns,
     rows |-> <<DataRow(1, "china", "asia", "18-25", 1, 0, 0, 0),
                DataRow(1, "india", "asia", "26-35", 2, 0, 0, 0),
                DataRow(2, "france", "europe", "18-25", 1, 0, 0, 0)>>]

\* a filter tab has been opened by a signed-in user
InitFilter ==
    /\ users_df = GateUsers
    /\ df = FilterTable
    /\ session_auth = [authenticated |-> TRUE, user |-> "analyst1", session_id |-> 1]
    /\ login_output = None
    /\ vu_call = NoCall
    /\ auth_event = NoEvent
    /\ last_writer = NoEvent
    /\ log = <<>>
    /\ cb_call = NoInvocation
    /\ startup = Started(df)
    /\ \E tab \in FilterTabs :
           ui = [InitialUi EXCEPT !.page = "dashboard_layout",
                                  !.active_tab = tab,
                                  !.tab_content = Layout(tab_function(tab)),
                                  !.seen_auth = <<session_auth>>,
                                  !.chunk = "rendered",
                                  !.visits = 1,
                                  !.filter_tab = tab]

\* every call the last selection asked for has been answered
Settled ==
    /\ cb_call.name = "none"
    /\ ui.requested = ui.selected
    /\ ui.options_for = ui.selected[1]

\* the user picks a continent of the continent dropdown, on a settled page
SelectContinent(continent) ==
    /\ Settled
    /\ continent # ui.selected[1]
    /\ ui' = [ui EXCEPT !.selected = <<continent, ui.selected[2]>>]
    /\ UNCHANGED <<users_df, session_auth, login_output, vu_call, auth_event,
                   last_writer, log, df, cb_call, startup>>

\* the user picks one of the options of the country dropdown, once enabled
SelectCountry(country) ==
    /\ Settled
    /\ ~ui.disabled
    /\ country # ui.selected[2]
    /\ ui' = [ui EXCEPT !.selected = <<ui.selected[1], country>>]
    /\ UNCHANGED <<users_df, session_auth, login_output, vu_call, auth_event,
                   last_writer, log, df, cb_call, startup>>

\* Dash calls the country-options callback of the tab for a continent whose
\* options the dropdown does not show yet
CallCountryOptions ==
    /\ ui.options_for # ui.selected[1]
    /\ \/ ui.filter_tab = "time" /\ update_time_country_options(ui.selected[1])
       \/ ui.filter_tab = "age" /\ update_age_country_options(ui.selected[1])
       \/ ui.filter_tab = "summary" /\ update_country_options(ui.selected[1])

\* Dash calls the chart callback of the tab with the values the dropdowns
\* hold, when they differ from those of its last call
CallFilter ==
    /\ ui.requested # ui.selected
    /\ \/ ui.filter_tab = "geo"
          /\ update_geo_tab("jobs_placed", ui.selected[1], ui.selected[2], "top", 5)
       \/ ui.filter_tab = "time"
          /\ update_time_tab(NoDate, NoDate, "jobs_placed", ui.selected[1],
                             ui.selected[2], "M")
       \/ ui.filter_tab = "age"
          /\ update_age_tab("jobs_placed", ui.selected[1], ui.selected[2])
       \/ ui.filter_tab = "summary"
          /\ update_summary_tab(ui.selected[1], ui.selected[2], "absolute")

ChartCallbacks ==
    {"update_geo_tab", "update_time_tab", "update_age_tab", "update_summary_tab"}

\* the continent and the country an invocation of a chart callback got
FilterArgs(call) ==
    CASE call.name = "update_geo_tab" -> <<call.args[2], call.args[3]>>
      [] call.name = "update_time_tab" -> <<call.args[4], call.args[5]>>
      [] call.name = "update_age_tab" -> <<call.args[2], call.args[3]>>
      [] call.name = "update_summary_tab" -> <<call.args[1], call.args[2]>>

\* the rows the chart callback of a tab keeps for a continent and a country:
\* the geo tab takes a country of None for no filter, the other tabs compare
\* the column with it
filter_applied(name, t, continent, country) ==
    IF name = "update_geo_tab" /\ country = None
    THEN InContinent(t, continent)
    ELSE InCountry(InContinent(t, continent), country)

\* the browser receives the response: the country dropdown gets the options
\* and the flag returned for it, and drops a value that is not among them
Deliver ==
    LET writes  == /\ cb_call.name \in OptionsCallbacks \cup {"update_geo_tab"}
                   /\ ~cb_call.out.raised
        options == cb_call.out.ret[1]
        values  == [i \in 1..Len(options) |-> options[i].value]
        kept    == IF ui.selected[2] \in Range(values) \cup {None}
                   THEN ui.selected[2] ELSE None
    IN  /\ cb_call.name # "none"
        /\ cb_call' = NoInvocation
        /\ ui' = [ui EXCEPT
                    !.selected = IF writes THEN <<ui.selected[1], kept>> ELSE @,
                    !.offered = IF writes THEN values ELSE @,
                    !.disabled = IF writes THEN cb_call.out.ret[2] ELSE @,
                    !.options_for = IF writes THEN ContinentSelected ELSE @,
                    !.requested = IF cb_call.name \in ChartCallbacks
                                  THEN FilterArgs(cb_call) ELSE @]
        /\ UNCHANGED <<users_df, session_auth, login_output, vu_call, auth_event,
                       last_writer, log, df, startup>>

NextFilter ==
    \/ \E continent \in {"all"} \cup OfferedContinents(df) : SelectContinent(continent)
    \/ \E country \in Range(ui.offered) : SelectCountry(country)
    \/ CallCountryOptions
    \/ CallFilter
    \/ Deliver

SpecFilter == InitFilter /\ [][NextFilter]_vars

FilterAnswered == cb_call.name \in ChartCallbacks

\* the countries offered for a continent, besides "all"
OfferedFor(continent) ==
    IF continent = "all" THEN {} ELSE countries_in_continent(df, continent)

\* the chart callback kept the rows of the continent, or those of one of the
\* countries offered for it
AppliedCountryOffered ==
    \E country \in {"all"} \cup OfferedFor(FilterArgs(cb_call)[1]) :
        filter_applied(cb_call.name, df, FilterArgs(cb_call)[1],
                       FilterArgs(cb_call)[2]).rows
            = InCountry(InContinent(df, FilterArgs(cb_call)[1]), country).rows

\* C30: in every tab with a continent and a country filter, after any
\* sequence of selections the country the filter applies is "all" or one of
\* the options offered for the selected continent; changing the continent
\* never leaves a previously chosen country in force.
C30_AppliedCountryOffered == FilterAnswered => AppliedCountryOffered

\* the geo tab, once its dropdown shows the options of the continent asked for
C30_GeoAppliedCountryOffered ==
    /\ cb_call.name = "update_geo_tab"
    /\ ui.options_for = FilterArgs(cb_call)[1]
    => AppliedCountryOffered

\* a chart callback filters by the country chosen under another continent
C30_StaleCountryApplied ==
    /\ FilterAnswered
    /\ FilterArgs(cb_call) = <<"europe", "china">>

\* the time tab, with the options of the continent in place and nothing left
\* to call, has filtered by a country of None and kept no row
C30_NoCountryApplied ==
    /\ cb_call.name = "update_time_tab"
    /\ FilterArgs(cb_call) = <<"europe", None>>
    /\ ui.options_for = "europe"
    /\ ui.selected = <<"europe", None>>
    /\ filter_applied(cb_call.name, df, "europe", None).rows = <<>>

====
